---- MODULE Spec2Model ----
(***************************************************************************)
(* Technical indicator engine of stock_analyzer:                           *)
(*   TechnicalIndicatorCalculator.calculate_all    price series -> points  *)
(*   TechnicalIndicatorCalculator.generate_signals points -> signals       *)
(* its collaborators:                                                      *)
(*   NewsCollector.deduplicate_news                articles -> articles    *)
(*   AIAnalyzer.analyze                            the optional AI step    *)
(* and the callers that put them together:                                 *)
(*   StockAnalyzer.analyze                         one stock -> report     *)
(*   main                                          the CLI run             *)
(*                                                                         *)
(* Numbers are Python floats in the source.  Here a number is an integer   *)
(* count of raw units, Tenth raw units making 0.1 and One raw units making *)
(* 1.0, so 30 is 30 * One and 0.2 is 2 * Tenth; the arithmetic of the rule *)
(* engine (differences, a division followed by int()) is exact on such     *)
(* fixed-point values.  Infinite floats are outside the model.             *)
(***************************************************************************)
EXTENDS Integers, Sequences, FiniteSets, TLC

VARIABLES
    pc,          \* position of the caller: which call is pending or has returned
    price_data,  \* list[PriceData] handed to calculate_all
    ta,          \* what pandas_ta returned to calculate_rsi / _trix / _macd
    ta_calls,    \* number of pandas_ta invocations made by calculate_all
    indicators,  \* list[TechnicalIndicators]: calculate_all's result, generate_signals' input
    signals,     \* list[Signal] returned by generate_signals
    error,       \* exception that left the call, "none" when it returned
    params,      \* the calculator's six period parameters (self.rsi_length, ...)
    earlier,     \* what the caller kept of the first of two calls on one input
    articles,    \* list[NewsArticle] handed to deduplicate_news (the titles)
    max_results, \* deduplicate_news' max_results argument
    unique_articles,  \* list returned by deduplicate_news
    client,      \* AIAnalyzer._client: TRUE when an OpenAI client was built
    ai_call,     \* the positional arguments of the pending AIAnalyzer.analyze call
    api_calls,   \* chat-completion requests made by AIAnalyzer.analyze
    ai_result,   \* what AIAnalyzer.analyze returned
    use_ai,      \* StockAnalyzer(use_ai=...): whether an AIAnalyzer was built
    collected,   \* what the price and DART collectors answer to StockAnalyzer.analyze
    report,      \* the StockReport returned by StockAnalyzer.analyze
    stock_list,  \* main: the stocks to report on
    stock_index, \* main: how many stocks the loop has gone through
    pdf_results, \* main: what generate_report_for_period returned, stock by stock
    all_pdf_paths,  \* main: the PDFs collected by the loop
    merged_pdf,  \* main: the merged PDF, "None" or its path
    kakao,       \* main: the --kakao option
    notified,    \* main: send_kakao_notification was called
    cleaned      \* main: cleanup_old_reports was called

newsVars == <<articles, max_results, unique_articles>>
aiVars == <<client, ai_call, api_calls, ai_result>>
reportVars == <<use_ai, collected, report>>
mainVars == <<stock_list, stock_index, pdf_results, all_pdf_paths, merged_pdf,
              kakao, notified, cleaned>>
vars == <<pc, price_data, ta, ta_calls, indicators, signals, error, params,
          earlier, newsVars, aiVars, reportVars, mainVars>>

----------------------------------------------------------------------------
(* Bounds of the model *)

MaxLen == 3      \* longest indicator list handed to generate_signals directly
MaxPrices == 3   \* longest price list handed to calculate_all
MaxDate == 4     \* calendar days are 1 .. MaxDate
Tenth == 2       \* raw units per 0.1 (resolution of the fixed-point numbers)
Precision == 7   \* significant bits a floating-point result keeps (53 in a double)
MaxTaPrices == 5     \* longest price list whose RSI is computed for every shape
MaxRsiLength == 3    \* RSI lengths 2 .. MaxRsiLength besides the default
TrendLen == 20       \* length of the long constant-step price lists
MaxArticles == 3     \* longest article list of mixed titles
MaxResults == 3      \* max_results ranges over -1 .. MaxResults
MaxDisclosures == 2  \* longest disclosure list handed to AIAnalyzer.analyze
MaxStocks == 3       \* longest stock list of a run of main

One == 10 * Tenth

----------------------------------------------------------------------------
(* Optional floats: None, NaN, or a number *)

None == [tag |-> "None", v |-> 0]
NaN == [tag |-> "NaN", v |-> 0]
Num(x) == [tag |-> "float", v |-> x]

Abs(x) == IF x < 0 THEN -x ELSE x
Min(a, b) == IF a <= b THEN a ELSE b

\* Python int(a / b) for b > 0: truncation toward zero
IntDiv(a, b) == IF a >= 0 THEN a \div b ELSE -((-a) \div b)

----------------------------------------------------------------------------
(* models/schemas.py *)

BUY == "BUY"
SELL == "SELL"
HOLD == "HOLD"
SignalType == {BUY, SELL, HOLD}

STRENGTH_GE == 1
STRENGTH_LE == 5

\* What a failed pydantic validation of Signal(...) leaves in place of a signal
ValidationError ==
    [indicator |-> "ValidationError", signal |-> "", reason |-> "", strength |-> 0]

\* Signal(indicator=..., signal=..., reason=..., strength=...): the strength
\* field is validated against ge=1, le=5.  The reason keeps the fixed text
\* of the message (the rule that fired); the number an RSI reason renders
\* with :.1f is left out.
Signal(indicator, signal, reason, strength) ==
    IF strength >= STRENGTH_GE /\ strength <= STRENGTH_LE
    THEN [indicator |-> indicator, signal |-> signal, reason |-> reason,
          strength |-> strength]
    ELSE ValidationError

TechnicalIndicators(date, rsi, trix, trix_signal, macd, macd_signal, macd_histogram) ==
    [date |-> date, rsi |-> rsi, trix |-> trix, trix_signal |-> trix_signal,
     macd |-> macd, macd_signal |-> macd_signal, macd_histogram |-> macd_histogram]

PriceData(date, close) == [date |-> date, close |-> close]

----------------------------------------------------------------------------
(* indicators/technical.py: the rule engine *)

RSI_OVERSOLD == 30
RSI_OVERBOUGHT == 70
RSI_STEP == 6
MAX_STRENGTH == 5
TRIX_FACTOR == 10
MACD_DIVISOR == 100
EXIT_STRENGTH == 2

\* Variants of the strength formulas: the cap forgotten, the quotient
\* rounded up instead of truncated, the offset forgotten.
RsiBuyStrengthUncapped(current_rsi) ==
    IntDiv(RSI_OVERSOLD * One - current_rsi, RSI_STEP * One) + 1

RsiBuyStrengthRoundUp(current_rsi) ==
    Min(MAX_STRENGTH,
        IntDiv(RSI_OVERSOLD * One - current_rsi + RSI_STEP * One - 1, RSI_STEP * One) + 1)

RsiSellStrengthNoOffset(current_rsi) ==
    Min(MAX_STRENGTH, IntDiv(current_rsi - RSI_OVERBOUGHT * One, RSI_STEP * One))

\* strength = min(5, int((30 - current_rsi) / 6) + 1)
RsiBuyStrength(current_rsi) ==
    Min(MAX_STRENGTH, IntDiv(RSI_OVERSOLD * One - current_rsi, RSI_STEP * One) + 1)

\* strength = min(5, int((current_rsi - 70) / 6) + 1)
RsiSellStrength(current_rsi) ==
    Min(MAX_STRENGTH, IntDiv(current_rsi - RSI_OVERBOUGHT * One, RSI_STEP * One) + 1)

\* strength = min(5, int(abs(current_trix - current_signal) * 10) + 2)
TrixCrossStrength(current_trix, current_signal) ==
    Min(MAX_STRENGTH, IntDiv(Abs(current_trix - current_signal) * TRIX_FACTOR, One) + 2)

\* Variant: the MACD gap scaled like the TRIX gap (times 10 instead of over 100)
MacdCrossStrengthTrixScale(current_macd, current_signal) ==
    Min(MAX_STRENGTH, IntDiv(Abs(current_macd - current_signal) * TRIX_FACTOR, One) + 2)

\* strength = min(5, int(abs(current_macd - current_signal) / 100) + 2)
MacdCrossStrength(current_macd, current_signal) ==
    Min(MAX_STRENGTH, IntDiv(Abs(current_macd - current_signal), MACD_DIVISOR * One) + 2)

\* Variant: the exit rules with the boundary excluded (previous < 30 < current)
_generate_rsi_signal_strict_exit(current_rsi, prev_rsi) ==
    IF current_rsi < RSI_OVERSOLD * One
    THEN <<Signal("RSI", BUY, "oversold entry", RsiBuyStrength(current_rsi))>>
    ELSE IF current_rsi > RSI_OVERBOUGHT * One
    THEN <<Signal("RSI", SELL, "overbought entry", RsiSellStrength(current_rsi))>>
    ELSE IF prev_rsi # None
    THEN IF prev_rsi.v < RSI_OVERSOLD * One /\ RSI_OVERSOLD * One < current_rsi
         THEN <<Signal("RSI", BUY, "oversold exit", EXIT_STRENGTH)>>
         ELSE IF prev_rsi.v > RSI_OVERBOUGHT * One /\ RSI_OVERBOUGHT * One > current_rsi
         THEN <<Signal("RSI", SELL, "overbought exit", EXIT_STRENGTH)>>
         ELSE <<>>
    ELSE <<>>

\* Variant: the same four rules with the exit rules tested before the
\* entry rules
_generate_rsi_signal_exit_first(current_rsi, prev_rsi) ==
    IF prev_rsi # None /\ prev_rsi.v < RSI_OVERSOLD * One
                       /\ RSI_OVERSOLD * One <= current_rsi
    THEN <<Signal("RSI", BUY, "oversold exit", EXIT_STRENGTH)>>
    ELSE IF prev_rsi # None /\ prev_rsi.v > RSI_OVERBOUGHT * One
                            /\ RSI_OVERBOUGHT * One >= current_rsi
    THEN <<Signal("RSI", SELL, "overbought exit", EXIT_STRENGTH)>>
    ELSE IF current_rsi < RSI_OVERSOLD * One
    THEN <<Signal("RSI", BUY, "oversold entry", RsiBuyStrength(current_rsi))>>
    ELSE IF current_rsi > RSI_OVERBOUGHT * One
    THEN <<Signal("RSI", SELL, "overbought entry", RsiSellStrength(current_rsi))>>
    ELSE <<>>

\* Returns <<>> for None and <<s>> for a Signal s.
\* current_rsi is a number, prev_rsi is None or Num(_).
_generate_rsi_signal(current_rsi, prev_rsi) ==
    IF current_rsi < RSI_OVERSOLD * One
    THEN <<Signal("RSI", BUY, "oversold entry", RsiBuyStrength(current_rsi))>>
    ELSE IF current_rsi > RSI_OVERBOUGHT * One
    THEN <<Signal("RSI", SELL, "overbought entry", RsiSellStrength(current_rsi))>>
    ELSE IF prev_rsi # None
    THEN IF prev_rsi.v < RSI_OVERSOLD * One /\ RSI_OVERSOLD * One <= current_rsi
         THEN <<Signal("RSI", BUY, "oversold exit", EXIT_STRENGTH)>>
         ELSE IF prev_rsi.v > RSI_OVERBOUGHT * One /\ RSI_OVERBOUGHT * One >= current_rsi
         THEN <<Signal("RSI", SELL, "overbought exit", EXIT_STRENGTH)>>
         ELSE <<>>
    ELSE <<>>

\* Variant: the signal-line rules looking at the current point only
TrixRulesCurrentOnly(current_trix, current_signal, prev_trix, prev_signal) ==
    IF current_trix > current_signal
    THEN <<Signal("TRIX", BUY, "golden cross",
                  TrixCrossStrength(current_trix, current_signal))>>
    ELSE IF current_trix < current_signal
    THEN <<Signal("TRIX", SELL, "dead cross",
                  TrixCrossStrength(current_trix, current_signal))>>
    ELSE IF prev_trix <= 0 /\ 0 < current_trix
    THEN <<Signal("TRIX", BUY, "zero line up", EXIT_STRENGTH)>>
    ELSE IF prev_trix >= 0 /\ 0 > current_trix
    THEN <<Signal("TRIX", SELL, "zero line down", EXIT_STRENGTH)>>
    ELSE <<>>

\* Variant: a crossing that needs the previous values to differ
TrixRulesStrictCross(current_trix, current_signal, prev_trix, prev_signal) ==
    IF prev_trix < prev_signal /\ current_trix > current_signal
    THEN <<Signal("TRIX", BUY, "golden cross",
                  TrixCrossStrength(current_trix, current_signal))>>
    ELSE IF prev_trix > prev_signal /\ current_trix < current_signal
    THEN <<Signal("TRIX", SELL, "dead cross",
                  TrixCrossStrength(current_trix, current_signal))>>
    ELSE IF prev_trix <= 0 /\ 0 < current_trix
    THEN <<Signal("TRIX", BUY, "zero line up", EXIT_STRENGTH)>>
    ELSE IF prev_trix >= 0 /\ 0 > current_trix
    THEN <<Signal("TRIX", SELL, "zero line down", EXIT_STRENGTH)>>
    ELSE <<>>

\* Variant: the zero-line rules tested before the signal-line rules
TrixRulesZeroLineFirst(current_trix, current_signal, prev_trix, prev_signal) ==
    IF prev_trix <= 0 /\ 0 < current_trix
    THEN <<Signal("TRIX", BUY, "zero line up", EXIT_STRENGTH)>>
    ELSE IF prev_trix >= 0 /\ 0 > current_trix
    THEN <<Signal("TRIX", SELL, "zero line down", EXIT_STRENGTH)>>
    ELSE IF prev_trix <= prev_signal /\ current_trix > current_signal
    THEN <<Signal("TRIX", BUY, "golden cross",
                  TrixCrossStrength(current_trix, current_signal))>>
    ELSE IF prev_trix >= prev_signal /\ current_trix < current_signal
    THEN <<Signal("TRIX", SELL, "dead cross",
                  TrixCrossStrength(current_trix, current_signal))>>
    ELSE <<>>

\* Variant: a zero-line crossing that needs the previous value off the line
TrixRulesZeroLineStrict(current_trix, current_signal, prev_trix, prev_signal) ==
    IF prev_trix <= prev_signal /\ current_trix > current_signal
    THEN <<Signal("TRIX", BUY, "golden cross",
                  TrixCrossStrength(current_trix, current_signal))>>
    ELSE IF prev_trix >= prev_signal /\ current_trix < current_signal
    THEN <<Signal("TRIX", SELL, "dead cross",
                  TrixCrossStrength(current_trix, current_signal))>>
    ELSE IF prev_trix < 0 /\ 0 < current_trix
    THEN <<Signal("TRIX", BUY, "zero line up", EXIT_STRENGTH)>>
    ELSE IF prev_trix > 0 /\ 0 > current_trix
    THEN <<Signal("TRIX", SELL, "zero line down", EXIT_STRENGTH)>>
    ELSE <<>>

\* The four TRIX rules on numbers, first match wins
TrixRules(current_trix, current_signal, prev_trix, prev_signal) ==
    IF prev_trix <= prev_signal /\ current_trix > current_signal
    THEN <<Signal("TRIX", BUY, "golden cross",
                  TrixCrossStrength(current_trix, current_signal))>>
    ELSE IF prev_trix >= prev_signal /\ current_trix < current_signal
    THEN <<Signal("TRIX", SELL, "dead cross",
                  TrixCrossStrength(current_trix, current_signal))>>
    ELSE IF prev_trix <= 0 /\ 0 < current_trix
    THEN <<Signal("TRIX", BUY, "zero line up", EXIT_STRENGTH)>>
    ELSE IF prev_trix >= 0 /\ 0 > current_trix
    THEN <<Signal("TRIX", SELL, "zero line down", EXIT_STRENGTH)>>
    ELSE <<>>

\* Variant: an absent previous value read as 0 (prev_trix or 0)
_generate_trix_signal_prev_default(current_trix, current_signal, prev_trix, prev_signal) ==
    TrixRules(current_trix, current_signal, prev_trix.v, prev_signal.v)

\* Variant: the zero-line rules applied when only the previous signal
\* value is absent
_generate_trix_signal_zero_line_alone(current_trix, current_signal, prev_trix, prev_signal) ==
    IF prev_trix = None
    THEN <<>>
    ELSE IF prev_signal = None
    THEN IF prev_trix.v <= 0 /\ 0 < current_trix
         THEN <<Signal("TRIX", BUY, "zero line up", EXIT_STRENGTH)>>
         ELSE IF prev_trix.v >= 0 /\ 0 > current_trix
         THEN <<Signal("TRIX", SELL, "zero line down", EXIT_STRENGTH)>>
         ELSE <<>>
    ELSE TrixRules(current_trix, current_signal, prev_trix.v, prev_signal.v)

\* current_* are numbers, prev_* are None or Num(_)
_generate_trix_signal(current_trix, current_signal, prev_trix, prev_signal) ==
    IF prev_trix = None \/ prev_signal = None
    THEN <<>>
    ELSE TrixRules(current_trix, current_signal, prev_trix.v, prev_signal.v)

\* Variant: a HOLD signal returned when no MACD rule fires
MacdRulesHoldDefault(current_macd, current_signal, prev_macd, prev_signal) ==
    IF prev_macd <= prev_signal /\ current_macd > current_signal
    THEN <<Signal("MACD", BUY, "golden cross",
                  MacdCrossStrength(current_macd, current_signal))>>
    ELSE IF prev_macd >= prev_signal /\ current_macd < current_signal
    THEN <<Signal("MACD", SELL, "dead cross",
                  MacdCrossStrength(current_macd, current_signal))>>
    ELSE IF prev_macd <= 0 /\ 0 < current_macd
    THEN <<Signal("MACD", BUY, "zero line up", EXIT_STRENGTH)>>
    ELSE IF prev_macd >= 0 /\ 0 > current_macd
    THEN <<Signal("MACD", SELL, "zero line down", EXIT_STRENGTH)>>
    ELSE <<Signal("MACD", HOLD, "no cross", STRENGTH_GE)>>

\* Variant: the MACD rule without the zero-line rules
MacdRulesNoZeroLine(current_macd, current_signal, prev_macd, prev_signal) ==
    IF prev_macd <= prev_signal /\ current_macd > current_signal
    THEN <<Signal("MACD", BUY, "golden cross",
                  MacdCrossStrength(current_macd, current_signal))>>
    ELSE IF prev_macd >= prev_signal /\ current_macd < current_signal
    THEN <<Signal("MACD", SELL, "dead cross",
                  MacdCrossStrength(current_macd, current_signal))>>
    ELSE <<>>

\* The four MACD rules on numbers, first match wins
MacdRules(current_macd, current_signal, prev_macd, prev_signal) ==
    IF prev_macd <= prev_signal /\ current_macd > current_signal
    THEN <<Signal("MACD", BUY, "golden cross",
                  MacdCrossStrength(current_macd, current_signal))>>
    ELSE IF prev_macd >= prev_signal /\ current_macd < current_signal
    THEN <<Signal("MACD", SELL, "dead cross",
                  MacdCrossStrength(current_macd, current_signal))>>
    ELSE IF prev_macd <= 0 /\ 0 < current_macd
    THEN <<Signal("MACD", BUY, "zero line up", EXIT_STRENGTH)>>
    ELSE IF prev_macd >= 0 /\ 0 > current_macd
    THEN <<Signal("MACD", SELL, "zero line down", EXIT_STRENGTH)>>
    ELSE <<>>

_generate_macd_signal(current_macd, current_signal, prev_macd, prev_signal) ==
    IF prev_macd = None \/ prev_signal = None
    THEN <<>>
    ELSE MacdRules(current_macd, current_signal, prev_macd.v, prev_signal.v)

\* Variant: the previous point taken from the front of the list
PrevFromFront(inds) == inds[1]

\* latest = indicators[-1]; prev = indicators[-2]
Latest(inds) == inds[Len(inds)]
Prev(inds) == inds[Len(inds) - 1]

RsiPart(latest, prev) ==
    IF latest.rsi # None
    THEN _generate_rsi_signal(latest.rsi.v, prev.rsi)
    ELSE <<>>

\* Variant: the TRIX block nested under the RSI test
TrixPartUnderRsi(latest, prev) ==
    IF latest.rsi # None /\ latest.trix # None /\ latest.trix_signal # None
    THEN _generate_trix_signal(latest.trix.v, latest.trix_signal.v,
                               prev.trix, prev.trix_signal)
    ELSE <<>>

TrixPart(latest, prev) ==
    IF latest.trix # None /\ latest.trix_signal # None
    THEN _generate_trix_signal(latest.trix.v, latest.trix_signal.v,
                               prev.trix, prev.trix_signal)
    ELSE <<>>

MacdPart(latest, prev) ==
    IF latest.macd # None /\ latest.macd_signal # None
    THEN _generate_macd_signal(latest.macd.v, latest.macd_signal.v,
                               prev.macd, prev.macd_signal)
    ELSE <<>>

\* The result of a call: the value returned, or the exception that left it
Return(value) == [value |-> value, error |-> "none"]
Raise(exc) == [value |-> <<>>, error |-> exc]

\* Variant: the MACD block placed before the TRIX block
EvaluateFamiliesMacdFirst(latest, prev) ==
    Return(RsiPart(latest, prev) \o MacdPart(latest, prev) \o TrixPart(latest, prev))

\* signals = []; then the RSI, TRIX and MACD blocks in this order, each
\* appending its signal if it produced one.  A Signal(...) that fails its
\* validation raises out of generate_signals.
EvaluateFamilies(latest, prev) ==
    LET rsi_signal == RsiPart(latest, prev)
        trix_signal == TrixPart(latest, prev)
        macd_signal == MacdPart(latest, prev)
    IN  IF \/ rsi_signal = <<ValidationError>>
           \/ trix_signal = <<ValidationError>>
           \/ macd_signal = <<ValidationError>>
        THEN Raise("ValidationError")
        ELSE Return(rsi_signal \o trix_signal \o macd_signal)

\* Variant: the guard written as "if not indicators", so that a single
\* point reaches indicators[-2]
generate_signals_empty_guard(inds) ==
    IF Len(inds) < 1
    THEN Return(<<>>)
    ELSE IF Len(inds) = 1
    THEN Raise("IndexError")
    ELSE EvaluateFamilies(Latest(inds), Prev(inds))

generate_signals(inds) ==
    IF Len(inds) < 2
    THEN Return(<<>>)
    ELSE EvaluateFamilies(Latest(inds), Prev(inds))

----------------------------------------------------------------------------
(* indicators/technical.py: the indicator calculator *)

\* TechnicalIndicatorCalculator.__init__: the default periods
RSI_LENGTH == 14
TRIX_LENGTH == 15
TRIX_SIGNAL == 9
MACD_FAST == 12
MACD_SLOW == 26
MACD_SIGNAL == 9

\* The fields __init__ stores on the calculator
Calculator(rsi_length, trix_length, trix_signal, macd_fast, macd_slow, macd_signal) ==
    [rsi_length |-> rsi_length, trix_length |-> trix_length,
     trix_signal |-> trix_signal, macd_fast |-> macd_fast,
     macd_slow |-> macd_slow, macd_signal |-> macd_signal]

\* TechnicalIndicatorCalculator()
DefaultCalculator ==
    Calculator(RSI_LENGTH, TRIX_LENGTH, TRIX_SIGNAL, MACD_FAST, MACD_SLOW, MACD_SIGNAL)

\* What a pandas_ta function hands back: None, a Series, or a DataFrame
\* whose columns all have the same number of rows.
TaNone == [kind |-> "None"]
TaSeries(data) == [kind |-> "Series", data |-> data]
TaFrame(cols) == [kind |-> "DataFrame", cols |-> cols]
NotCalled == [kind |-> "NotCalled"]

\* pd.Series([None] * len(close), index=close.index)
NoneSeries(n) == [i \in 1..n |-> None]

\* macd_df.empty / trix_df.empty: no rows (a frame of pandas_ta always has columns)
FrameEmpty(df) == Len(df.cols[1]) = 0

calculate_rsi(close, ret) ==
    IF ret = TaNone THEN NoneSeries(Len(close)) ELSE ret.data

\* <<trix, trix_sig>>
calculate_trix(close, ret) ==
    IF ret = TaNone \/ FrameEmpty(ret)
    THEN <<NoneSeries(Len(close)), NoneSeries(Len(close))>>
    ELSE <<ret.cols[1], ret.cols[2]>>

\* Variant: the histogram read from the MACD column
calculate_macd_hist_from_macd(close, ret) ==
    IF ret = TaNone \/ FrameEmpty(ret)
    THEN <<NoneSeries(Len(close)), NoneSeries(Len(close)), NoneSeries(Len(close))>>
    ELSE <<ret.cols[1], ret.cols[2], ret.cols[1]>>

\* <<macd, macd_sig, macd_hist>>
calculate_macd(close, ret) ==
    IF ret = TaNone \/ FrameEmpty(ret)
    THEN <<NoneSeries(Len(close)), NoneSeries(Len(close)), NoneSeries(Len(close))>>
    ELSE <<ret.cols[1], ret.cols[2], ret.cols[3]>>

\* Variant: an undefined value filled with 0
_safe_float_zero_fill(value) ==
    IF value = None THEN None
    ELSE IF value = NaN THEN Num(0)
    ELSE Num(value.v)

_safe_float(value) ==
    IF value = None THEN None
    ELSE IF value = NaN THEN None
    ELSE Num(value.v)

\* pd.to_datetime(date): the Timestamp of that day's midnight
to_datetime(d) == [day |-> d, ns |-> 0]

\* Variant: the calendar day read in a zone behind the one it was written in
TimestampDatePreviousDay(ts) == IF ts.ns > 0 THEN ts.day ELSE ts.day - 1

\* Timestamp.date()
TimestampDate(ts) == ts.day

\* Variant: the bound test one row short
CellAtOneShort(s, i) == IF i < Len(s) THEN _safe_float(s[i]) ELSE None

\* self._safe_float(s.iloc[i]) if i < len(s) else None   (i counts from 1 here)
CellAt(s, i) == IF i <= Len(s) THEN _safe_float(s[i]) ELSE None

NoTa == [rsi |-> NotCalled, trix |-> NotCalled, macd |-> NotCalled]

\* calculate_all past its guard; lib is what pandas_ta answers: [rsi, trix, macd]
ComputeIndicators(prices, lib) ==
    LET index == [i \in 1..Len(prices) |-> to_datetime(prices[i].date)]
        close == [i \in 1..Len(prices) |-> prices[i].close]
        rsi == calculate_rsi(close, lib.rsi)
        tx == calculate_trix(close, lib.trix)
        md == calculate_macd(close, lib.macd)
    IN  [value |-> [i \in 1..Len(index) |->
                       TechnicalIndicators(TimestampDate(index[i]),
                                           CellAt(rsi, i),
                                           CellAt(tx[1], i), CellAt(tx[2], i),
                                           CellAt(md[1], i), CellAt(md[2], i),
                                           CellAt(md[3], i))],
         error |-> "none", calls |-> 3, ta |-> lib]

\* Variant: no guard, so that df["date"] is looked up in a frame without columns
calculate_all_unguarded(prices, lib) ==
    IF prices = <<>>
    THEN [value |-> <<>>, error |-> "KeyError", calls |-> 0, ta |-> NoTa]
    ELSE ComputeIndicators(prices, lib)

calculate_all(prices, lib) ==
    IF prices = <<>>
    THEN [value |-> <<>>, error |-> "none", calls |-> 0, ta |-> NoTa]
    ELSE ComputeIndicators(prices, lib)

----------------------------------------------------------------------------
(* pandas_ta.rsi, the function calculate_rsi calls.  It computes in        *)
(* floating point: every operation rounds to the nearest number with       *)
(* Precision significant bits, ties to even.  Inside it a number is an     *)
(* integer count of binary units, Bin of them making 1.0.                  *)

RECURSIVE Pow(_, _)
Pow(b, k) == IF k = 0 THEN 1 ELSE b * Pow(b, k - 1)

Bin == Pow(2, Precision + 3)

\* Distance between neighbouring floating-point numbers around num / den
RECURSIVE Spacing(_, _, _)
Spacing(num, den, step) ==
    IF num < Pow(2, Precision) * step * den THEN step
    ELSE Spacing(num, den, 2 * step)

\* Variant: results rounded toward zero
fl_truncating(num, den) ==
    LET step == Spacing(num, den, 1)
    IN  (num \div (den * step)) * step

\* The floating-point number nearest to num / den (num >= 0, den > 0)
fl(num, den) ==
    LET step == Spacing(num, den, 1)
        q == num \div (den * step)
        r == num % (den * step)
    IN  IF 2 * r > den * step \/ (2 * r = den * step /\ q % 2 = 1)
        THEN (q + 1) * step
        ELSE q * step

RECURSIVE Sum(_, _, _)
Sum(f, lo, hi) == IF lo > hi THEN 0 ELSE f[lo] + Sum(f, lo + 1, hi)

\* Variant: the mean given from min_periods - 1 observations on
rma_one_observation_early(x, length, i) ==
    IF i < length \/ i < 2 THEN NaN
    ELSE IF \A j \in 2..i : x[j] = x[2] THEN Num(x[2])
    ELSE LET w == [j \in 2..i |-> Pow(length - 1, i - j) * Pow(length, j - 2)]
         IN  Num(fl(Sum([j \in 2..i |-> w[j] * x[j]], 2, i), Sum(w, 2, i)))

\* rma(x, length) at row i: x.ewm(alpha=1/length, min_periods=length).mean().
\* Row 1 of x (the difference before the first close) is NaN and is not
\* an observation; the newest observation weighs 1 and every step back
\* multiplies the weight by 1 - 1/length.  A constant series is its own mean.
rma(x, length, i) ==
    IF i - 1 < length THEN NaN
    ELSE IF \A j \in 2..i : x[j] = x[2] THEN Num(x[2])
    ELSE LET w == [j \in 2..i |-> Pow(length - 1, i - j) * Pow(length, j - 2)]
         IN  Num(fl(Sum([j \in 2..i |-> w[j] * x[j]], 2, i), Sum(w, 2, i)))

\* scalar of pandas_ta.rsi
RSI_SCALAR == 100

\* Variant: 100 - 100 / (1 + RS), with RS = positive_avg / abs(negative_avg)
\* and a division by zero answered by NaN
rsi_ratio_rs(positive_avg, negative_avg) ==
    IF negative_avg = 0 THEN NaN
    ELSE LET rs == fl(positive_avg * Bin, negative_avg)
         IN  Num(RSI_SCALAR * Bin - fl(RSI_SCALAR * Bin * Bin, Bin + rs))

\* scalar * positive_avg / (positive_avg + negative_avg.abs()); 0/0 is NaN
rsi_ratio(positive_avg, negative_avg) ==
    LET total == fl(positive_avg + negative_avg, 1)
    IN  IF total = 0 THEN NaN
        ELSE Num(fl(fl(RSI_SCALAR * positive_avg, 1) * Bin, total))

\* A number of the fixed-point scale as a float, and a float on the
\* fixed-point scale
FromRaw(x) == fl(x * Bin, One)
ToRaw(value) == IF value = NaN THEN NaN ELSE Num((value.v * One) \div Bin)

\* ta.rsi(close, length=length): None for fewer than length closes, else a
\* Series of len(close) rows
ta_rsi(close, length) ==
    IF Len(close) < length THEN TaNone
    ELSE LET n == Len(close)
             diff == [j \in 1..n |-> IF j = 1 THEN 0 ELSE close[j] - close[j - 1]]
             positive == [j \in 1..n |-> IF diff[j] < 0 THEN 0 ELSE FromRaw(diff[j])]
             negative == [j \in 1..n |-> IF diff[j] > 0 THEN 0 ELSE FromRaw(-diff[j])]
         IN  TaSeries([i \in 1..n |->
                 IF rma(positive, length, i) = NaN THEN NaN
                 ELSE ToRaw(rsi_ratio(rma(positive, length, i).v,
                                      rma(negative, length, i).v))])

----------------------------------------------------------------------------
(* Inputs *)

Cells(S) == {None} \cup {Num(x) : x \in S}

\* macd_histogram that goes with macd and macd_signal in a hand-made point
Hist(m, s) == IF m = None \/ s = None THEN None ELSE Num(m.v - s.v)

\* A point from its rsi, its <<trix, trix_signal>> and its <<macd, macd_signal>>
Pt(r, t, m) == TechnicalIndicators(0, r, t[1], t[2], m[1], m[2], Hist(m[1], m[2]))

\* Sample values: every side of each threshold, each strength step, values
\* outside [0, 100] and oscillator gaps beyond the strength cap.
RsiGrid ==
    Cells({-13 * One, 6 * One, 24 * One, 25 * One, 30 * One - 1, 30 * One,
           35 * One, 50 * One, 65 * One, 70 * One, 70 * One + 1, 75 * One,
           76 * One, 113 * One})
TrixGrid == Cells({-5 * Tenth, 0, 2 * Tenth, 35 * Tenth})
TrixSignalGrid == Cells({-6 * Tenth, 0, Tenth, 2 * Tenth - 1})
MacdGrid == Cells({-100 * One, 0, 100 * One, 600 * One})
MacdSignalGrid == Cells({-150 * One, -50 * One, 50 * One})

\* <<previous, current>> of a family whose values are not the ones being swept
RsiFew ==
    { <<None, None>>, <<None, Num(-13 * One)>>,
      <<Num(80 * One), Num(60 * One)>>, <<None, Num(50 * One)>> }
TrixFew ==
    { << <<None, None>>, <<None, None>> >>,
      << <<Num(-Tenth), Num(0)>>, <<Num(Tenth), Num(0)>> >>,
      << <<Num(Tenth), Num(0)>>, <<Num(-Tenth), Num(0)>> >>,
      << <<Num(-Tenth), None>>, <<Num(Tenth), Num(0)>> >> }
MacdFew ==
    { << <<None, None>>, <<None, None>> >>,
      << <<Num(-One), Num(0)>>, <<Num(One), Num(0)>> >>,
      << <<Num(One), Num(0)>>, <<Num(-One), Num(0)>> >>,
      << <<Num(-One), Num(0)>>, <<Num(One), None>> >> }

\* The last two points <<previous, current>>: one family swept over its
\* grid, the other two taken from their few pairs.
SweepRsi ==
    { <<Pt(rp, t[1], m[1]), Pt(rc, t[2], m[2])>> :
        rp \in RsiGrid, rc \in RsiGrid, t \in TrixFew, m \in MacdFew }
SweepTrix ==
    { <<Pt(r[1], <<tp, sp>>, m[1]), Pt(r[2], <<tc, sc>>, m[2])>> :
        tp \in TrixGrid, sp \in TrixSignalGrid, tc \in TrixGrid, sc \in TrixSignalGrid,
        r \in RsiFew, m \in MacdFew }
SweepMacd ==
    { <<Pt(r[1], t[1], <<mp, sp>>), Pt(r[2], t[2], <<mc, sc>>)>> :
        mp \in MacdGrid, sp \in MacdSignalGrid, mc \in MacdGrid, sc \in MacdSignalGrid,
        r \in RsiFew, t \in TrixFew }
LastTwo == SweepRsi \cup SweepTrix \cup SweepMacd

\* Points that may come before the last two
EarlyPoints ==
    { Pt(None, <<None, None>>, <<None, None>>),
      Pt(Num(0), <<Num(-Tenth), Num(0)>>, <<Num(One), Num(0)>>) }

Histories(k) == UNION { [1..j -> EarlyPoints] : j \in 0..k }

\* Dates ascend with the position
Dated(s) == [i \in 1..Len(s) |-> [s[i] EXCEPT !.date = i]]

IndicatorInputs ==
    {<<>>}
    \cup { Dated(<<p[2]>>) : p \in LastTwo }
    \cup { Dated(h \o p) : h \in Histories(MaxLen - 2), p \in LastTwo }

\* Close prices of a rising or a falling series
Close(trend, i) == (100 + trend * i) * One

\* Price lists with ascending, unique dates
PriceInputs ==
    UNION { { [i \in 1..n |-> PriceData(d[i], Close(trend, i))] :
                d \in { e \in [1..n -> 1..MaxDate] :
                          \A i \in 1..n : \A j \in 1..n : i < j => e[i] < e[j] },
                trend \in {-1, 1} } :
            n \in 0..MaxPrices }

\* A pandas_ta column of m rows: NaN during the first w rows, then numbers
Column(m, w, lo, hi) ==
    [i \in 1..m |-> IF i <= w THEN NaN ELSE IF i = m THEN Num(hi) ELSE Num(lo)]

\* What pandas_ta may answer on a close series of n rows: nothing, or
\* columns of at most n rows with a warm-up of NaN.
TaRsiOutcomes(n) ==
    {TaNone} \cup
    { TaSeries(Column(m, w, 50 * One, 80 * One)) : m \in 0..n, w \in 0..n }
TaTrixOutcomes(n) ==
    {TaNone} \cup
    { TaFrame(<<Column(m, w, -2 * Tenth, 2 * Tenth),
                Column(m, w + 1, -Tenth, Tenth)>>) : m \in 0..n, w \in 0..n }
TaMacdOutcomes(n) ==
    {TaNone} \cup
    { TaFrame(<<Column(m, w, -100 * One, 100 * One),
                Column(m, w + 1, -50 * One, 50 * One),
                Column(m, w + 1, -50 * One, 50 * One)>>) : m \in 0..n, w \in 0..n }
TaOutcomes(n) ==
    [rsi : TaRsiOutcomes(n), trix : TaTrixOutcomes(n), macd : TaMacdOutcomes(n)]

\* Day-to-day changes of the close
Steps == {-One, 0, One, 2 * One}

\* The closes that start at 100 and move by the given steps
Closes(steps) == [i \in 1..Len(steps) + 1 |-> 100 * One + Sum(steps, 1, i - 1)]

\* One price per day, day i holding close[i]
Prices(close) == [i \in 1..Len(close) |-> PriceData(i, close[i])]

\* Price lists for the computed RSI: every shape of up to MaxTaPrices
\* prices, and lists of TrendLen prices that move by the same step each day
TaPriceInputs ==
    {<<>>}
    \cup { Prices(Closes(st)) :
             st \in UNION { [1..k -> Steps] : k \in 0..MaxTaPrices - 1 } }
    \cup { Prices(Closes([j \in 1..TrendLen - 1 |-> c])) : c \in Steps }

\* Calculators with a short RSI length, and the default one
TaCalculators ==
    { [DefaultCalculator EXCEPT !.rsi_length = length] :
        length \in (2..MaxRsiLength) \cup {RSI_LENGTH} }

\* What ta.trix and ta.macd may answer on a series too short for a signal
\* line: nothing, a frame of NaN, or a frame whose last oscillator row alone
\* is a number
TaShortOutcomes(n) ==
    { [trix |-> TaNone, macd |-> TaNone],
      [trix |-> TaFrame(<<Column(n, n, 0, 0), Column(n, n, 0, 0)>>),
       macd |-> TaFrame(<<Column(n, n, 0, 0), Column(n, n, 0, 0),
                          Column(n, n, 0, 0)>>)],
      [trix |-> TaFrame(<<Column(n, n - 1, 0, 2 * Tenth), Column(n, n, 0, 0)>>),
       macd |-> TaNone] }

----------------------------------------------------------------------------
(* analyzers/ai_analyzer.py: AIAnalyzer *)

\* Positional arguments of a call: a string, a list of n items, a dict
StrArg == [kind |-> "str", n |-> 0]
ListArg(n) == [kind |-> "list", n |-> n]
DictArg == [kind |-> "dict", n |-> 0]

\* models/schemas.py: AIAnalysis.  Keyword arguments that are no field of
\* the model (news_analysis, disclosure_analysis) are dropped by pydantic.
\* sentiment_score is in tenths, key_issues is the number of issues.
AIAnalysis(news_summary, sentiment, sentiment_score, key_issues, overall_opinion) ==
    [tag |-> "AIAnalysis", news_summary |-> news_summary, sentiment |-> sentiment,
     sentiment_score |-> sentiment_score, key_issues |-> key_issues,
     overall_opinion |-> overall_opinion]

\* What stands for a result that is no AIAnalysis: None, or no value at all
NoAnalysis(tag) ==
    [tag |-> tag, news_summary |-> "", sentiment |-> "", sentiment_score |-> 0,
     key_issues |-> 0, overall_opinion |-> ""]

\* sentiment_score: float = Field(..., ge=-1.0, le=1.0), in tenths
ScoreValid(sentiment_score) == sentiment_score >= -10 /\ sentiment_score <= 10

\* self._client.chat.completions.create(...) and the reading of its
\* response: content comes back ("ok"), the content is empty ("empty"), or
\* the call raises ("raise"); for analyze_sentiment the JSON may also carry
\* a score outside [-1, 1] ("invalid")
TextOutcomes == {"ok", "empty", "raise"}
SentimentOutcomes == {"ok", "raise", "invalid"}
ApiOutcomes ==
    [summarize_news : TextOutcomes, analyze_news : TextOutcomes,
     analyze_disclosures : TextOutcomes, analyze_sentiment : SentimentOutcomes,
     generate_opinion : TextOutcomes]

\* One guarded API call of a text method: the value returned and the
\* number of API calls made
TextCall(skip, skipped, outcome, fallback, failed) ==
    IF skip THEN [value |-> skipped, calls |-> 0]
    ELSE [value |-> CASE outcome = "ok" -> "content"
                      [] outcome = "empty" -> fallback
                      [] OTHER -> failed,
          calls |-> 1]

summarize_news(has_client, articles_n, outcome) ==
    TextCall(~has_client \/ articles_n = 0, "no news summary", outcome,
             "summary failed", "news summary failed")

analyze_news(has_client, articles_n, outcome) ==
    TextCall(~has_client \/ articles_n = 0, "", outcome, "", "")

analyze_disclosures(has_client, disclosures_n, outcome) ==
    TextCall(~has_client \/ disclosures_n = 0, "", outcome, "", "")

analyze_sentiment(has_client, articles_n, disclosures_n, outcome) ==
    LET neutral == [sentiment |-> "NEUTRAL", score |-> 0, key_issues |-> 0]
    IN  IF ~has_client \/ (articles_n = 0 /\ disclosures_n = 0)
        THEN [value |-> neutral, calls |-> 0]
        ELSE [value |-> CASE outcome = "ok" ->
                               [sentiment |-> "POSITIVE", score |-> 5, key_issues |-> 1]
                          [] outcome = "invalid" ->
                               [sentiment |-> "POSITIVE", score |-> 50, key_issues |-> 1]
                          [] OTHER -> neutral,
              calls |-> 1]

generate_opinion(has_client, outcome) ==
    TextCall(~has_client, "no AI analysis", outcome,
             "opinion failed", "opinion failed")

\* def analyze(self, stock_name, articles, disclosures, report_data)
AnalyzeParameters == 4

\* AIAnalyzer.analyze called with the positional arguments args: what it
\* returns, what it raises, and the API calls it makes.  A call with fewer
\* or more arguments than parameters raises TypeError before the body runs.
analyze(has_client, args, api) ==
    IF Len(args) # AnalyzeParameters
    THEN [value |-> NoAnalysis("NotCalled"), raised |-> "TypeError", calls |-> 0]
    ELSE IF ~has_client
    THEN [value |-> NoAnalysis("None"), raised |-> "none", calls |-> 0]
    ELSE LET articles_n == args[2].n
             disclosures_n == args[3].n
             news_summary == summarize_news(has_client, articles_n, api.summarize_news)
             news_analysis == analyze_news(has_client, articles_n, api.analyze_news)
             disclosure_analysis ==
                 analyze_disclosures(has_client, disclosures_n, api.analyze_disclosures)
             sentiment ==
                 analyze_sentiment(has_client, articles_n, disclosures_n,
                                   api.analyze_sentiment)
             overall_opinion == generate_opinion(has_client, api.generate_opinion)
             calls == news_summary.calls + news_analysis.calls
                      + disclosure_analysis.calls + sentiment.calls
                      + overall_opinion.calls
         IN  IF ScoreValid(sentiment.value.score)
             THEN [value |-> AIAnalysis(news_summary.value, sentiment.value.sentiment,
                                        sentiment.value.score,
                                        sentiment.value.key_issues,
                                        overall_opinion.value),
                   raised |-> "none", calls |-> calls]
             ELSE [value |-> NoAnalysis("None"), raised |-> "none", calls |-> calls]

----------------------------------------------------------------------------
(* analyzers/stock_analyzer.py and models/schemas.py: StockReport *)

\* What the collectors answer: whether get_stock_info finds the stock,
\* whether the DART collector has its key, and how many disclosures it lists
Collected(stock_found, dart_available, disclosures_n) ==
    [stock_found |-> stock_found, dart_available |-> dart_available,
     disclosures_n |-> disclosures_n]

\* StockReport(...), as far as the analysis fills it
StockReport(prices, inds, sigs, news, disclosures_n, ai_analysis) ==
    [tag |-> "StockReport", price_data |-> prices, indicators |-> inds,
     signals |-> sigs, news |-> news, disclosures |-> disclosures_n,
     ai_analysis |-> ai_analysis]

\* No report: StockAnalyzer.analyze has not returned
NoReport ==
    [tag |-> "None", price_data |-> <<>>, indicators |-> <<>>, signals |-> <<>>,
     news |-> <<>>, disclosures |-> 0, ai_analysis |-> NoAnalysis("None")]

----------------------------------------------------------------------------
(* The state machine: a caller makes one call, or calculate_all followed  *)
(* by generate_signals on its result as StockAnalyzer.analyze does.       *)

\* A result the caller has not kept yet
NoResult == [value |-> <<>>, error |-> "none"]

\* No deduplicate_news call and no AIAnalyzer.analyze call is under way
NewsIdle == articles = <<>> /\ max_results = 0 /\ unique_articles = <<>>
AiIdle ==
    client = FALSE /\ ai_call = <<>> /\ api_calls = 0 /\ ai_result = NoAnalysis("NotCalled")

\* No StockAnalyzer.analyze call and no run of main is under way
ReportIdle ==
    use_ai = FALSE /\ collected = Collected(FALSE, FALSE, 0) /\ report = NoReport
MainIdle ==
    /\ stock_list = <<>> /\ stock_index = 0 /\ pdf_results = <<>>
    /\ all_pdf_paths = <<>> /\ merged_pdf = "None"
    /\ kakao = FALSE /\ notified = FALSE /\ cleaned = FALSE

InitSignals ==
    /\ pc = "sig_call"
    /\ indicators \in IndicatorInputs
    /\ price_data = <<>>
    /\ ta = NoTa
    /\ ta_calls = 0
    /\ signals = <<>>
    /\ error = "none"
    /\ params = DefaultCalculator
    /\ earlier = NoResult
    /\ NewsIdle
    /\ AiIdle
    /\ ReportIdle
    /\ MainIdle

InitCalc ==
    /\ pc = "calc_call"
    /\ price_data \in PriceInputs
    /\ indicators = <<>>
    /\ ta = NoTa
    /\ ta_calls = 0
    /\ signals = <<>>
    /\ error = "none"
    /\ params = DefaultCalculator
    /\ earlier = NoResult
    /\ NewsIdle
    /\ AiIdle
    /\ ReportIdle
    /\ MainIdle

Init == InitSignals \/ InitCalc

\* Variant: the call keeps the length of its series on the calculator
CalculateAllKeepingLength ==
    /\ pc = "calc_call"
    /\ \E lib \in TaOutcomes(Len(price_data)) :
         LET r == calculate_all(price_data, lib)
         IN  /\ indicators' = r.value
             /\ error' = r.error
             /\ ta' = r.ta
             /\ ta_calls' = r.calls
    /\ pc' = "calc_done"
    /\ params' = [params EXCEPT !.rsi_length = Len(price_data)]
    /\ UNCHANGED <<price_data, signals, earlier, newsVars, aiVars, reportVars, mainVars>>

CalculateAll ==
    /\ pc = "calc_call"
    /\ \E lib \in TaOutcomes(Len(price_data)) :
         LET r == calculate_all(price_data, lib)
         IN  /\ indicators' = r.value
             /\ error' = r.error
             /\ ta' = r.ta
             /\ ta_calls' = r.calls
    /\ pc' = "calc_done"
    /\ UNCHANGED <<price_data, signals, params, earlier, newsVars, aiVars, reportVars, mainVars>>

GenerateSignals ==
    /\ pc \in {"sig_call", "calc_done", "calc_again"}
    /\ error = "none"
    /\ LET r == generate_signals(indicators)
       IN  /\ signals' = r.value
           /\ error' = r.error
    /\ pc' = "sig_done"
    /\ UNCHANGED <<price_data, ta, ta_calls, indicators, params, earlier,
                   newsVars, aiVars, reportVars, mainVars>>

Next == CalculateAll \/ GenerateSignals

Spec == Init /\ [][Next]_vars

----------------------------------------------------------------------------
(* Each call made a second time on the same calculator and the same input *)

\* calculate_all(price_data) again; pandas_ta, a function of the closes and
\* the periods, answers what it answered before
CalculateAgain ==
    /\ pc = "calc_done"
    /\ error = "none"
    /\ earlier' = [value |-> indicators, error |-> error]
    /\ LET r == calculate_all(price_data, ta)
       IN  /\ indicators' = r.value
           /\ error' = r.error
           /\ ta' = r.ta
           /\ ta_calls' = ta_calls + r.calls
    /\ pc' = "calc_again"
    /\ UNCHANGED <<price_data, signals, params, newsVars, aiVars, reportVars, mainVars>>

\* generate_signals(indicators) again
GenerateAgain ==
    /\ pc = "sig_done"
    /\ earlier' = [value |-> signals, error |-> error]
    /\ LET r == generate_signals(indicators)
       IN  /\ signals' = r.value
           /\ error' = r.error
    /\ pc' = "sig_again"
    /\ UNCHANGED <<price_data, ta, ta_calls, indicators, params, newsVars, aiVars, reportVars, mainVars>>

NextRepeat == CalculateAll \/ GenerateSignals \/ CalculateAgain \/ GenerateAgain

SpecRepeat == Init /\ [][NextRepeat]_vars

----------------------------------------------------------------------------
(* The same calls with the RSI column computed from the closes *)

InitTa ==
    /\ pc = "calc_call"
    /\ price_data \in TaPriceInputs
    /\ params \in TaCalculators
    /\ indicators = <<>>
    /\ ta = NoTa
    /\ ta_calls = 0
    /\ signals = <<>>
    /\ error = "none"
    /\ earlier = NoResult
    /\ NewsIdle
    /\ AiIdle
    /\ ReportIdle
    /\ MainIdle

\* calculate_all, with ta.rsi answering what it computes for self.rsi_length
CalculateAllTa ==
    /\ pc = "calc_call"
    /\ \E short \in TaShortOutcomes(Len(price_data)) :
         LET close == [i \in 1..Len(price_data) |-> price_data[i].close]
             lib == [rsi |-> ta_rsi(close, params.rsi_length),
                     trix |-> short.trix, macd |-> short.macd]
             r == calculate_all(price_data, lib)
         IN  /\ indicators' = r.value
             /\ error' = r.error
             /\ ta' = r.ta
             /\ ta_calls' = r.calls
    /\ pc' = "calc_done"
    /\ UNCHANGED <<price_data, signals, params, earlier, newsVars, aiVars, reportVars, mainVars>>

NextTa == CalculateAllTa \/ GenerateSignals

SpecTa == InitTa /\ [][NextTa]_vars

----------------------------------------------------------------------------
(* collectors/news.py: NewsCollector.deduplicate_news *)

\* NewsArticle, as far as deduplicate_news reads it; link tells two
\* articles of one title apart
NewsArticle(title, link) == [title |-> title, link |-> link]

\* A title is a sequence of characters.  lower() and
\* re.sub(r"[^\w\s]", "", ...) on the characters used here
Lower(ch) == IF ch = "A" THEN "a" ELSE ch
IsWordOrSpace(ch) == ch # "!"
CleanTitle(title) ==
    LET Keep(ch) == IsWordOrSpace(ch)
    IN  SelectSeq([i \in 1..Len(title) |-> Lower(title[i])], Keep)

\* SequenceMatcher.find_longest_match within a[alo..ahi] and b[blo..bhi]:
\* the blocks <<i, j, k>> with a[i..i+k-1] = b[j..j+k-1], of which the
\* longest is taken, the earliest in a, then the earliest in b
MatchingBlocks(a, alo, ahi, b, blo, bhi) ==
    { t \in (alo..ahi) \X (blo..bhi) \X (1..Len(a)) :
        /\ t[1] + t[3] - 1 <= ahi
        /\ t[2] + t[3] - 1 <= bhi
        /\ \A d \in 0..t[3] - 1 : a[t[1] + d] = b[t[2] + d] }

LongestMatch(blocks) ==
    CHOOSE t \in blocks : \A u \in blocks :
        \/ t[3] > u[3]
        \/ t[3] = u[3] /\ t[1] < u[1]
        \/ t[3] = u[3] /\ t[1] = u[1] /\ t[2] <= u[2]

\* Sum of the sizes of SequenceMatcher.get_matching_blocks(): the longest
\* match, then the same to its left and to its right
RECURSIVE Matches(_, _, _, _, _, _)
Matches(a, alo, ahi, b, blo, bhi) ==
    LET blocks == MatchingBlocks(a, alo, ahi, b, blo, bhi)
    IN  IF blocks = {} THEN 0
        ELSE LET t == LongestMatch(blocks)
             IN  t[3] + Matches(a, alo, t[1] - 1, b, blo, t[2] - 1)
                      + Matches(a, t[1] + t[3], ahi, b, t[2] + t[3], bhi)

\* SequenceMatcher(None, a, b).ratio() = 2.0 * matches / (len(a) + len(b)),
\* and 1.0 for two empty strings; kept as a fraction
Ratio(a, b) ==
    IF Len(a) + Len(b) = 0 THEN [num |-> 1, den |-> 1]
    ELSE [num |-> 2 * Matches(a, 1, Len(a), b, 1, Len(b)), den |-> Len(a) + Len(b)]

_title_similarity(title1, title2) == Ratio(CleanTitle(title1), CleanTitle(title2))

\* similarity_threshold: float = 0.7, in tenths
SIMILARITY_THRESHOLD == 7

\* similarity >= similarity_threshold
AtLeast(similarity, tenths) == similarity.num * 10 >= tenths * similarity.den

\* The loop over articles from position k on, unique_articles being unique
RECURSIVE DeduplicateFrom(_, _, _, _, _)
DeduplicateFrom(arts, k, unique, similarity_threshold, maximum) ==
    IF k > Len(arts) THEN unique
    ELSE LET is_duplicate ==
                 \E u \in 1..Len(unique) :
                     AtLeast(_title_similarity(arts[k].title, unique[u].title),
                             similarity_threshold)
             appended == IF is_duplicate THEN unique ELSE Append(unique, arts[k])
         IN  IF Len(appended) >= maximum THEN appended
             ELSE DeduplicateFrom(arts, k + 1, appended, similarity_threshold, maximum)

deduplicate_news(arts, similarity_threshold, maximum) ==
    IF arts = <<>> THEN <<>>
    ELSE DeduplicateFrom(arts, 1, <<>>, similarity_threshold, maximum)

\* Titles: "ab"; "Ab!", which cleans to "ab"; "ba", 0.5 like "ab"; "aba",
\* 0.8 like "ab" and like "ba"; "!", which cleans to the empty title
Titles ==
    { <<"a", "b">>, <<"A", "b", "!">>, <<"b", "a">>, <<"a", "b", "a">>, <<"!">> }

\* The titles of test_deduplicate_max_results: 15 titles, no two alike
TEST_TITLES == 15
TEST_MAX_RESULTS == 10
TestTitles ==
    [i \in 1..TEST_TITLES |->
        << <<"c", "d", "e", "f", "g", "h", "i", "j", "k", "l", "m", "n", "o",
             "p", "q">>[i] >>]

Articles(titles) == [i \in 1..Len(titles) |-> NewsArticle(titles[i], i)]

\* No calculator call is under way
EngineIdle ==
    /\ price_data = <<>> /\ indicators = <<>> /\ ta = NoTa /\ ta_calls = 0
    /\ signals = <<>> /\ params = DefaultCalculator /\ earlier = NoResult

InitNews ==
    /\ pc = "news_call"
    /\ \/ /\ articles \in { Articles(t) :
                              t \in UNION { [1..n -> Titles] : n \in 0..MaxArticles } }
          /\ max_results \in -1..MaxResults
       \/ /\ articles = Articles(TestTitles)
          /\ max_results = TEST_MAX_RESULTS
    /\ unique_articles = <<>>
    /\ error = "none"
    /\ EngineIdle
    /\ AiIdle
    /\ ReportIdle
    /\ MainIdle

\* collector.deduplicate_news(articles, max_results=max_results)
DeduplicateNews ==
    /\ pc = "news_call"
    /\ unique_articles' = deduplicate_news(articles, SIMILARITY_THRESHOLD, max_results)
    /\ pc' = "news_done"
    /\ UNCHANGED <<price_data, ta, ta_calls, indicators, signals, error, params,
                   earlier, articles, max_results, aiVars, reportVars, mainVars>>

NextNews == DeduplicateNews

SpecNews == InitNews /\ [][NextNews]_vars

\* The calls made of AIAnalyzer.analyze: with three positional arguments
\* (stock_name, a list, report_data) as the test and StockAnalyzer.analyze
\* write it, and with the four the signature names
AnalyzeCalls ==
    { <<StrArg, ListArg(a), DictArg>> : a \in 0..MaxArticles }
    \cup { <<StrArg, ListArg(a), ListArg(d), DictArg>> :
               a \in 0..MaxArticles, d \in 0..MaxDisclosures }

InitAI ==
    /\ pc = "ai_call"
    /\ client \in BOOLEAN
    /\ ai_call \in AnalyzeCalls
    /\ api_calls = 0
    /\ ai_result = NoAnalysis("NotCalled")
    /\ error = "none"
    /\ EngineIdle
    /\ NewsIdle
    /\ ReportIdle
    /\ MainIdle

\* analyzer.analyze(*ai_call)
AnalyzeAI ==
    /\ pc = "ai_call"
    /\ \E api \in ApiOutcomes :
           LET r == analyze(client, ai_call, api)
           IN  /\ ai_result' = r.value
               /\ error' = r.raised
               /\ api_calls' = api_calls + r.calls
    /\ pc' = "ai_done"
    /\ UNCHANGED <<price_data, ta, ta_calls, indicators, signals, params, earlier,
                   newsVars, client, ai_call, reportVars, mainVars>>

NextAI == AnalyzeAI

SpecAI == InitAI /\ [][NextAI]_vars

----------------------------------------------------------------------------
(* analyzers/stock_analyzer.py: StockAnalyzer.analyze *)

\* self.news_collector.deduplicate_news(all_news, max_results=10)
NEWS_MAX_RESULTS == 10

\* The result of StockAnalyzer.analyze, with what each step left behind
Analysis(value, raised, inds, sigs, lib, calls, news, args, ai) ==
    [value |-> value, raised |-> raised, indicators |-> inds, signals |-> sigs,
     ta |-> lib, ta_calls |-> calls, news |-> news, ai_call |-> args, ai |-> ai]

\* No AIAnalyzer.analyze call was made
NoAiCall == [value |-> NoAnalysis("NotCalled"), raised |-> "none", calls |-> 0]

\* self.ai_analyzer.analyze(stock_info.name, news, report_data)
AnalyzerArgs(news_n) == <<StrArg, ListArg(news_n), DictArg>>

\* The API is asked only by a call that an analyzer with a client accepts;
\* for any other call there is no answer to choose
NoApiAnswer ==
    [summarize_news |-> "raise", analyze_news |-> "raise",
     analyze_disclosures |-> "raise", analyze_sentiment |-> "raise",
     generate_opinion |-> "raise"]
ApiAnswers(available, args) ==
    IF available /\ Len(args) = AnalyzeParameters THEN ApiOutcomes ELSE {NoApiAnswer}

\* StockAnalyzer.analyze(code, start, end): stock info, prices, indicators
\* and signals, disclosures, news, the AI step, the report.  An exception
\* of any step leaves the method.
stock_analyze(ai_built, has_client, found, prices, lib, all_news, api) ==
    IF ~found.stock_found
    THEN Analysis(NoReport, "StockNotFoundError", <<>>, <<>>, NoTa, 0, <<>>, <<>>,
                  NoAiCall)
    ELSE IF prices = <<>>
    THEN Analysis(NoReport, "ValueError", <<>>, <<>>, NoTa, 0, <<>>, <<>>, NoAiCall)
    ELSE LET inds == calculate_all(prices, lib)
             sigs == generate_signals(inds.value)
             disclosures_n == IF found.dart_available THEN found.disclosures_n ELSE 0
             news == deduplicate_news(all_news, SIMILARITY_THRESHOLD, NEWS_MAX_RESULTS)
             args == AnalyzerArgs(Len(news))
             ai == analyze(has_client, args, api)
         IN  IF sigs.error # "none"
             THEN Analysis(NoReport, sigs.error, inds.value, <<>>, inds.ta, inds.calls,
                           <<>>, <<>>, NoAiCall)
             ELSE IF ~(ai_built /\ has_client)
             THEN Analysis(StockReport(prices, inds.value, sigs.value, news,
                                       disclosures_n, NoAnalysis("None")),
                           "none", inds.value, sigs.value, inds.ta, inds.calls, news,
                           <<>>, NoAiCall)
             ELSE IF ai.raised # "none"
             THEN Analysis(NoReport, ai.raised, inds.value, sigs.value, inds.ta,
                           inds.calls, news, args, ai)
             ELSE Analysis(StockReport(prices, inds.value, sigs.value, news,
                                       disclosures_n, ai.value),
                           "none", inds.value, sigs.value, inds.ta, inds.calls, news,
                           args, ai)

\* pandas_ta on the closes of a price list: the computed rsi, and one of
\* the answers of ta.trix and ta.macd on a short series
TaOn(prices, short) ==
    [rsi |-> ta_rsi([i \in 1..Len(prices) |-> prices[i].close], RSI_LENGTH),
     trix |-> short.trix, macd |-> short.macd]

\* Prices the price collector answers with: none, one, three rising
CollectedPrices == { <<>>, Prices(Closes(<<>>)), Prices(Closes(<<One, One>>)) }

\* News found: none, three articles of which two are alike, the 15 unlike ones
CollectedNews ==
    { <<>>,
      Articles(<< <<"a", "b">>, <<"A", "b", "!">>, <<"b", "a">> >>),
      Articles(TestTitles) }

CollectedAnswers ==
    { Collected(f, d, n) : f \in BOOLEAN, d \in BOOLEAN, n \in 0..MaxDisclosures }

InitAnalyze ==
    /\ pc = "analyze_call"
    /\ use_ai \in BOOLEAN
    /\ client \in BOOLEAN
    /\ use_ai = FALSE => client = FALSE
    /\ collected \in CollectedAnswers
    /\ collected.dart_available = FALSE => collected.disclosures_n = 0
    /\ price_data \in CollectedPrices
    /\ articles \in CollectedNews
    /\ max_results = NEWS_MAX_RESULTS
    /\ unique_articles = <<>>
    /\ indicators = <<>> /\ ta = NoTa /\ ta_calls = 0 /\ signals = <<>>
    /\ params = DefaultCalculator /\ earlier = NoResult
    /\ ai_call = <<>> /\ api_calls = 0 /\ ai_result = NoAnalysis("NotCalled")
    /\ report = NoReport
    /\ error = "none"
    /\ MainIdle

\* analyzer.analyze(code, start, end)
Analyze ==
    /\ pc = "analyze_call"
    /\ \E short \in TaShortOutcomes(Len(price_data)) :
       \E api \in ApiAnswers(use_ai /\ client, AnalyzerArgs(0)) :
         LET r == stock_analyze(use_ai, client, collected, price_data,
                                TaOn(price_data, short), articles, api)
         IN  /\ report' = r.value
             /\ error' = r.raised
             /\ indicators' = r.indicators
             /\ signals' = r.signals
             /\ ta' = r.ta
             /\ ta_calls' = r.ta_calls
             /\ unique_articles' = r.news
             /\ ai_call' = r.ai_call
             /\ ai_result' = r.ai.value
             /\ api_calls' = r.ai.calls
    /\ pc' = "analyze_done"
    /\ UNCHANGED <<price_data, params, earlier, articles, max_results, client,
                   use_ai, collected, mainVars>>

NextAnalyze == Analyze

SpecAnalyze == InitAnalyze /\ [][NextAnalyze]_vars

----------------------------------------------------------------------------
(* main.py: the CLI run *)

\* try: report = analyzer.analyze(...); pdf_path = generator.generate_pdf(...)
\* except StockNotFoundError / except Exception: return None.
\* analysis is what StockAnalyzer.analyze did, rendered is "ok" or "raise";
\* the path of a PDF is named after the stock code.
generate_report_for_period(analysis, code, rendered) ==
    IF analysis.raised # "none" THEN "None"
    ELSE IF rendered # "ok" THEN "None"
    ELSE code

\* What the collectors answer for one stock of the run
StockAnswers == { Collected(f, FALSE, 0) : f \in BOOLEAN }
StockPrices == { <<>>, Prices(Closes(<<One, One>>)) }

\* codes given on the command line, or the stocks select_top_stocks found
\* (none when the selection failed)
StockCodes == {"005930", "000660"}
StockLists == UNION { [1..n -> StockCodes] : n \in 0..MaxStocks }

InitMain ==
    /\ pc = "main_start"
    /\ kakao \in BOOLEAN
    /\ use_ai \in BOOLEAN
    /\ client \in BOOLEAN
    /\ use_ai = FALSE => client = FALSE
    /\ stock_list = <<>> /\ stock_index = 0 /\ pdf_results = <<>>
    /\ all_pdf_paths = <<>> /\ merged_pdf = "None"
    /\ notified = FALSE /\ cleaned = FALSE
    /\ collected = Collected(FALSE, FALSE, 0) /\ report = NoReport
    /\ ai_call = <<>> /\ api_calls = 0 /\ ai_result = NoAnalysis("NotCalled")
    /\ error = "none"
    /\ EngineIdle
    /\ NewsIdle

\* main up to the loop: the stock list is decided; an empty selection ends
\* the run with typer.Exit(1)
StartMain ==
    /\ pc = "main_start"
    /\ \E list \in StockLists :
         /\ stock_list' = list
         /\ pc' = IF list = <<>> THEN "main_exit" ELSE "main_loop"
         /\ error' = IF list = <<>> THEN "Exit" ELSE "none"
    /\ UNCHANGED <<price_data, ta, ta_calls, indicators, signals, params, earlier,
                   newsVars, aiVars, reportVars, stock_index, pdf_results,
                   all_pdf_paths, merged_pdf, kakao, notified, cleaned>>

\* Variant: one turn of the loop without the try/except of
\* generate_report_for_period, so that a failure leaves main
GenerateReportUncaught ==
    /\ pc = "main_loop"
    /\ stock_index < Len(stock_list)
    /\ \E found \in StockAnswers, prices \in StockPrices, rendered \in {"ok", "raise"} :
       \E short \in TaShortOutcomes(Len(prices)) :
       \E api \in ApiAnswers(use_ai /\ client, AnalyzerArgs(0)) :
         LET analysis == stock_analyze(use_ai, client, found, prices,
                                       TaOn(prices, short), <<>>, api)
             pdf_path == generate_report_for_period(analysis, stock_list[stock_index + 1],
                                                    rendered)
         IN  /\ pdf_results' = Append(pdf_results, pdf_path)
             /\ all_pdf_paths' = IF pdf_path # "None"
                                 THEN Append(all_pdf_paths, pdf_path)
                                 ELSE all_pdf_paths
             /\ error' = IF pdf_path # "None" THEN "none" ELSE "Exception"
             /\ pc' = IF pdf_path = "None" THEN "main_raised"
                      ELSE IF stock_index + 1 = Len(stock_list) THEN "main_merge"
                      ELSE "main_loop"
    /\ stock_index' = stock_index + 1
    /\ UNCHANGED <<price_data, ta, ta_calls, indicators, signals, params, earlier,
                   newsVars, aiVars, reportVars, stock_list, merged_pdf, kakao,
                   notified, cleaned>>

\* One turn of `for i, stock in enumerate(stock_list, 1)` (periods holds one
\* number of days): generate_report_for_period, and the append of its path
GenerateReport ==
    /\ pc = "main_loop"
    /\ stock_index < Len(stock_list)
    /\ \E found \in StockAnswers, prices \in StockPrices, rendered \in {"ok", "raise"} :
       \E short \in TaShortOutcomes(Len(prices)) :
       \E api \in ApiAnswers(use_ai /\ client, AnalyzerArgs(0)) :
         LET analysis == stock_analyze(use_ai, client, found, prices,
                                       TaOn(prices, short), <<>>, api)
             pdf_path == generate_report_for_period(analysis, stock_list[stock_index + 1],
                                                    rendered)
         IN  /\ pdf_results' = Append(pdf_results, pdf_path)
             /\ all_pdf_paths' = IF pdf_path # "None"
                                 THEN Append(all_pdf_paths, pdf_path)
                                 ELSE all_pdf_paths
    /\ stock_index' = stock_index + 1
    /\ pc' = IF stock_index + 1 = Len(stock_list) THEN "main_merge" ELSE "main_loop"
    /\ UNCHANGED <<price_data, ta, ta_calls, indicators, signals, error, params,
                   earlier, newsVars, aiVars, reportVars, stock_list, merged_pdf,
                   kakao, notified, cleaned>>

\* if len(all_pdf_paths) > 1: merged_pdf = merge_pdfs(...); merge_pdfs
\* writes a file and may raise
MergePdfs ==
    /\ pc = "main_merge"
    /\ IF Len(all_pdf_paths) > 1
       THEN \E written \in {"ok", "raise"} :
              /\ merged_pdf' = IF written = "ok" THEN "stock_report" ELSE merged_pdf
              /\ error' = IF written = "ok" THEN error ELSE "Exception"
              /\ pc' = IF written = "ok" THEN "main_notify" ELSE "main_raised"
       ELSE /\ pc' = "main_notify"
            /\ UNCHANGED <<merged_pdf, error>>
    /\ UNCHANGED <<price_data, ta, ta_calls, indicators, signals, params, earlier,
                   newsVars, aiVars, reportVars, stock_list, stock_index,
                   pdf_results, all_pdf_paths, kakao, notified, cleaned>>

\* if kakao and all_pdf_paths: send_kakao_notification(...)
Notify ==
    /\ pc = "main_notify"
    /\ notified' = (kakao /\ all_pdf_paths # <<>>)
    /\ pc' = "main_cleanup"
    /\ UNCHANGED <<price_data, ta, ta_calls, indicators, signals, error, params,
                   earlier, newsVars, aiVars, reportVars, stock_list, stock_index,
                   pdf_results, all_pdf_paths, merged_pdf, kakao, cleaned>>

\* cleanup_old_reports(output_dir, max_reports=10), then the closing lines
Cleanup ==
    /\ pc = "main_cleanup"
    /\ cleaned' = TRUE
    /\ pc' = "main_done"
    /\ UNCHANGED <<price_data, ta, ta_calls, indicators, signals, error, params,
                   earlier, newsVars, aiVars, reportVars, stock_list, stock_index,
                   pdf_results, all_pdf_paths, merged_pdf, kakao, notified>>

NextMain == StartMain \/ GenerateReport \/ MergePdfs \/ Notify \/ Cleanup

SpecMain == InitMain /\ [][NextMain]_vars

\* main is one sequential program: while a step is left to take, it is taken
SpecMainFair == SpecMain /\ WF_vars(NextMain)

----------------------------------------------------------------------------
(* Properties *)

\* The signals of one family within a list of signals
SignalsOf(sigs, family) ==
    LET IsFamily(sg) == sg.indicator = family
    IN  SelectSeq(sigs, IsFamily)

\* Position of a family in the order RSI, TRIX, MACD (0 for anything else)
Rank(family) ==
    IF family = "RSI" THEN 1
    ELSE IF family = "TRIX" THEN 2
    ELSE IF family = "MACD" THEN 3
    ELSE 0

\* The last two points of the list generate_signals was given
Cur == indicators[Len(indicators)]
Prv == indicators[Len(indicators) - 1]

\* generate_signals has returned or raised on a list of at least two points
SignalsDoneOnTwo == pc = "sig_done" /\ Len(indicators) >= 2

\* A point with the fields of every family but one made absent
OnlyFamily(p, family) ==
    [date |-> p.date,
     rsi |-> IF family = "RSI" THEN p.rsi ELSE None,
     trix |-> IF family = "TRIX" THEN p.trix ELSE None,
     trix_signal |-> IF family = "TRIX" THEN p.trix_signal ELSE None,
     macd |-> IF family = "MACD" THEN p.macd ELSE None,
     macd_signal |-> IF family = "MACD" THEN p.macd_signal ELSE None,
     macd_histogram |-> IF family = "MACD" THEN p.macd_histogram ELSE None]

\* C1: calculate_all returns exactly one point per input price, and the
\* point at each position carries the date of the price at that position,
\* whatever pandas_ta answered (nothing, or columns shorter than the input).
C1_LengthAndDates ==
    pc = "calc_done" =>
        /\ error = "none"
        /\ Len(indicators) = Len(price_data)
        /\ \A i \in 1..Len(price_data) : indicators[i].date = price_data[i].date

\* calculate_all has returned on several prices although pandas_ta gave no
\* RSI series and TRIX columns shorter than the input
C1_Witness ==
    /\ pc = "calc_done"
    /\ Len(price_data) >= 2
    /\ ta.rsi = TaNone
    /\ ta.trix # TaNone
    /\ Len(ta.trix.cols[1]) < Len(price_data)
    /\ Len(indicators) = Len(price_data)
    /\ indicators[2].date = price_data[2].date

\* C2: on a list of no point or one point generate_signals returns the
\* empty list, whatever the point holds.
C2_FewerThanTwoPoints ==
    (pc = "sig_done" /\ Len(indicators) < 2) => (signals = <<>> /\ error = "none")

\* generate_signals has returned on a single point whose rsi is below 30
C2_Witness ==
    /\ pc = "sig_done"
    /\ Len(indicators) = 1
    /\ indicators[1].rsi # None
    /\ indicators[1].rsi.v < 30 * One
    /\ signals = <<>>

\* C3: calculate_all on the empty list returns the empty list, raises
\* nothing and invokes no pandas_ta calculation.
C3_EmptyInput ==
    (pc = "calc_done" /\ price_data = <<>>) =>
        /\ indicators = <<>>
        /\ error = "none"
        /\ ta_calls = 0
        /\ ta.rsi = NotCalled /\ ta.trix = NotCalled /\ ta.macd = NotCalled

\* calculate_all has returned on the empty list
C3_Witness == pc = "calc_done" /\ price_data = <<>> /\ indicators = <<>>

\* C4: every signal generate_signals emits has a strength in 1..5, and no
\* Signal is ever refused by the validation of that range.
C4_StrengthRange ==
    pc = "sig_done" =>
        /\ error = "none"
        /\ \A i \in 1..Len(signals) :
             signals[i].strength \in Int /\ 1 <= signals[i].strength /\ signals[i].strength <= 5

\* An RSI below 0 and a MACD gap of more than 300 both gave a signal of strength 5
C4_Witness ==
    /\ SignalsDoneOnTwo
    /\ \E i \in 1..Len(signals) :
         /\ signals[i].indicator = "RSI"
         /\ signals[i].strength = 5
         /\ Cur.rsi.v < 0
    /\ \E i \in 1..Len(signals) :
         /\ signals[i].indicator = "MACD"
         /\ signals[i].strength = 5
         /\ Abs(Cur.macd.v - Cur.macd_signal.v) > 300 * One

\* C5 as stated: a family's signal is emitted only when the values of its
\* rule are present in both of the last two points.
C5_PresentInBothPoints ==
    SignalsDoneOnTwo =>
        \A i \in 1..Len(signals) :
            /\ signals[i].indicator = "RSI" => (Cur.rsi # None /\ Prv.rsi # None)
            /\ signals[i].indicator = "TRIX" =>
                 /\ Cur.trix # None /\ Cur.trix_signal # None
                 /\ Prv.trix # None /\ Prv.trix_signal # None
            /\ signals[i].indicator = "MACD" =>
                 /\ Cur.macd # None /\ Cur.macd_signal # None
                 /\ Prv.macd # None /\ Prv.macd_signal # None

\* C5 amended: an RSI signal needs the current rsi, and the previous rsi
\* too when the current one lies in [30, 70] (the exit rules); a TRIX or
\* MACD signal needs all four of its values.
C5_PresentWhereTheRuleReads ==
    SignalsDoneOnTwo =>
        \A i \in 1..Len(signals) :
            /\ signals[i].indicator = "RSI" =>
                 /\ Cur.rsi # None
                 /\ (30 * One <= Cur.rsi.v /\ Cur.rsi.v <= 70 * One) => Prv.rsi # None
            /\ signals[i].indicator = "TRIX" =>
                 /\ Cur.trix # None /\ Cur.trix_signal # None
                 /\ Prv.trix # None /\ Prv.trix_signal # None
            /\ signals[i].indicator = "MACD" =>
                 /\ Cur.macd # None /\ Cur.macd_signal # None
                 /\ Prv.macd # None /\ Prv.macd_signal # None

\* An RSI signal was emitted with the previous rsi absent, next to a TRIX signal
C5_Witness ==
    /\ SignalsDoneOnTwo
    /\ Prv.rsi = None
    /\ SignalsOf(signals, "RSI") # <<>>
    /\ SignalsOf(signals, "TRIX") # <<>>

\* C6: the list holds at most one RSI, one TRIX and one MACD signal, and
\* those present stand in the order RSI, TRIX, MACD.
C6_OnePerFamilyInOrder ==
    pc = "sig_done" =>
        /\ Len(signals) <= 3
        /\ \A i \in 1..Len(signals) : Rank(signals[i].indicator) \in 1..3
        /\ \A i \in 1..Len(signals) : \A j \in 1..Len(signals) :
             i < j => Rank(signals[i].indicator) < Rank(signals[j].indicator)

\* All three families gave a signal
C6_Witness ==
    /\ pc = "sig_done"
    /\ Len(signals) = 3
    /\ signals[1].indicator = "RSI"
    /\ signals[2].indicator = "TRIX"
    /\ signals[3].indicator = "MACD"

\* C7: the result depends on the last two points only.  Two lists with the
\* same last two points give equal results exactly when every list gives
\* the result of the two-point list made of its own last two points, which
\* is what is stated here.
C7_OnlyLastTwoPoints ==
    SignalsDoneOnTwo =>
        [value |-> signals, error |-> error] =
            generate_signals(<<indicators[Len(indicators) - 1], indicators[Len(indicators)]>>)

\* A list of three or more points whose first point differs from its
\* second-to-last point in every family gave signals
C7_Witness ==
    /\ pc = "sig_done"
    /\ Len(indicators) >= 3
    /\ signals # <<>>
    /\ indicators[1].rsi # indicators[Len(indicators) - 1].rsi
    /\ indicators[1].trix # indicators[Len(indicators) - 1].trix
    /\ indicators[1].macd # indicators[Len(indicators) - 1].macd

\* C8: what a family emits is decided by its own fields.  Two lists that
\* agree on a family's fields give the same signal for it exactly when
\* every list gives, for each family, what the list with the other
\* families' fields made absent gives, which is what is stated here.
C8_FamiliesIndependent ==
    pc = "sig_done" =>
        /\ error = "none"
        /\ \A family \in {"RSI", "TRIX", "MACD"} :
             SignalsOf(signals, family) =
                 SignalsOf(generate_signals(
                               [i \in 1..Len(indicators) |->
                                   OnlyFamily(indicators[i], family)]).value,
                           family)

\* TRIX gave a signal while rsi was absent, and MACD gave none while its
\* fields were partly absent
C8_Witness ==
    /\ SignalsDoneOnTwo
    /\ Cur.rsi = None
    /\ SignalsOf(signals, "TRIX") # <<>>
    /\ SignalsOf(signals, "MACD") = <<>>
    /\ Cur.macd # None
    /\ Cur.macd_signal = None

\* C9: a current rsi below 30 gives exactly one RSI signal, BUY, of
\* strength min(5, floor((30 - current) / 6) + 1), whatever the previous rsi.
C9_OversoldEntry ==
    (SignalsDoneOnTwo /\ Cur.rsi # None /\ Cur.rsi.v < 30 * One) =>
        /\ error = "none"
        /\ Len(SignalsOf(signals, "RSI")) = 1
        /\ SignalsOf(signals, "RSI")[1].signal = "BUY"
        /\ SignalsOf(signals, "RSI")[1].strength =
             Min(5, ((30 * One - Cur.rsi.v) \div (6 * One)) + 1)

\* previous 35, current 25: one RSI BUY (of strength 1)
C9_Witness ==
    /\ SignalsDoneOnTwo
    /\ Prv.rsi = Num(35 * One)
    /\ Cur.rsi = Num(25 * One)
    /\ Len(SignalsOf(signals, "RSI")) = 1
    /\ SignalsOf(signals, "RSI")[1].signal = "BUY"
    /\ SignalsOf(signals, "RSI")[1].strength = 1

\* C10: a current rsi above 70 gives exactly one RSI signal, SELL, of
\* strength min(5, floor((current - 70) / 6) + 1), whatever the previous rsi.
C10_OverboughtEntry ==
    (SignalsDoneOnTwo /\ Cur.rsi # None /\ Cur.rsi.v > 70 * One) =>
        /\ error = "none"
        /\ Len(SignalsOf(signals, "RSI")) = 1
        /\ SignalsOf(signals, "RSI")[1].signal = "SELL"
        /\ SignalsOf(signals, "RSI")[1].strength =
             Min(5, ((Cur.rsi.v - 70 * One) \div (6 * One)) + 1)

\* previous 65, current 75: one RSI SELL (of strength 1)
C10_Witness ==
    /\ SignalsDoneOnTwo
    /\ Prv.rsi = Num(65 * One)
    /\ Cur.rsi = Num(75 * One)
    /\ Len(SignalsOf(signals, "RSI")) = 1
    /\ SignalsOf(signals, "RSI")[1].signal = "SELL"
    /\ SignalsOf(signals, "RSI")[1].strength = 1

\* The last two points hold exactly these MACD values
MacdCase(pm, ps, cm, cs) ==
    /\ SignalsDoneOnTwo
    /\ Prv.macd = Num(pm * One) /\ Prv.macd_signal = Num(ps * One)
    /\ Cur.macd = Num(cm * One) /\ Cur.macd_signal = Num(cs * One)

\* Exactly one MACD signal, of this direction and strength
OneMacdSignal(direction, strength) ==
    /\ error = "none"
    /\ Len(SignalsOf(signals, "MACD")) = 1
    /\ SignalsOf(signals, "MACD")[1].signal = direction
    /\ SignalsOf(signals, "MACD")[1].strength = strength

\* C11 as stated: previous {macd -100, signal -50}, current {100, 50} gives
\* exactly one MACD signal, BUY of strength 3; the mirrored points give
\* exactly one MACD signal, SELL of strength 3.
C11_MacdCrossStrength3 ==
    /\ MacdCase(-100, -50, 100, 50) => OneMacdSignal("BUY", 3)
    /\ MacdCase(100, 50, -100, -50) => OneMacdSignal("SELL", 3)

\* C11 amended: the same points give exactly one MACD signal, BUY (resp.
\* SELL), of strength 2 = min(5, floor(|100 - 50| / 100) + 2).
C11_MacdCrossStrength2 ==
    /\ MacdCase(-100, -50, 100, 50) => OneMacdSignal("BUY", 2)
    /\ MacdCase(100, 50, -100, -50) => OneMacdSignal("SELL", 2)

\* generate_signals has returned on the golden-cross points of the test
C11_Witness == MacdCase(-100, -50, 100, 50) /\ OneMacdSignal("BUY", 2)

\* The last two points hold the TRIX values -0.5, -0.6 and then 0.2, 0.1
TrixCase ==
    /\ SignalsDoneOnTwo
    /\ Prv.trix = Num(-5 * Tenth) /\ Prv.trix_signal = Num(-6 * Tenth)
    /\ Cur.trix = Num(2 * Tenth) /\ Cur.trix_signal = Num(Tenth)

\* C12 as stated: these points give exactly one TRIX signal, BUY, from the
\* signal-line (golden cross) rule, of strength 3.
C12_TrixGoldenCross ==
    TrixCase =>
        /\ error = "none"
        /\ Len(SignalsOf(signals, "TRIX")) = 1
        /\ SignalsOf(signals, "TRIX")[1].signal = "BUY"
        /\ SignalsOf(signals, "TRIX")[1].reason = "golden cross"
        /\ SignalsOf(signals, "TRIX")[1].strength = 3

\* C12 amended: these points give exactly one TRIX signal, BUY, from the
\* zero-line rule (the previous trix -0.5 lies above the previous signal
\* -0.6, so there is no golden cross), of strength 2.
C12_TrixZeroLineUp ==
    TrixCase =>
        /\ error = "none"
        /\ Len(SignalsOf(signals, "TRIX")) = 1
        /\ SignalsOf(signals, "TRIX")[1].signal = "BUY"
        /\ SignalsOf(signals, "TRIX")[1].reason = "zero line up"
        /\ SignalsOf(signals, "TRIX")[1].strength = 2

\* generate_signals has returned on these TRIX points with one TRIX signal
C12_Witness == TrixCase /\ Len(SignalsOf(signals, "TRIX")) = 1

\* C13: no emitted signal has the direction HOLD: each is BUY or SELL.
C13_NeverHold ==
    pc = "sig_done" =>
        \A i \in 1..Len(signals) :
            signals[i].signal # "HOLD" /\ signals[i].signal \in {"BUY", "SELL"}

\* A list with a BUY and a SELL was returned, and a family whose values
\* are all present gave no signal
C13_Witness ==
    /\ SignalsDoneOnTwo
    /\ \E i \in 1..Len(signals) : signals[i].signal = "BUY"
    /\ \E i \in 1..Len(signals) : signals[i].signal = "SELL"
    /\ SignalsOf(signals, "MACD") = <<>>
    /\ Cur.macd # None /\ Cur.macd_signal # None
    /\ Prv.macd # None /\ Prv.macd_signal # None

\* calculate_all has returned a list for a non-empty price list
CalculatedPoints ==
    pc \in {"calc_done", "sig_done"} /\ price_data # <<>> /\ error = "none"

C15_RsiInRange ==
    CalculatedPoints =>
        \A i \in 1..Len(indicators) :
            indicators[i].rsi # None =>
                0 <= indicators[i].rsi.v /\ indicators[i].rsi.v <= 100 * One

\* Every close of the price list is above the one before
StrictlyIncreasing ==
    \A i \in 2..Len(price_data) : price_data[i - 1].close < price_data[i].close

\* C17: for a strictly increasing close series longer than the RSI length
\* (20 or more closes with the default length 14), the last point returned
\* by calculate_all has a present rsi above 70, and generate_signals on
\* that output reports an RSI SELL.
C17_UptrendIsOverbought ==
    (CalculatedPoints /\ StrictlyIncreasing
        /\ Len(price_data) > params.rsi_length) =>
        /\ indicators[Len(indicators)].rsi # None
        /\ indicators[Len(indicators)].rsi.v > 70 * One
        /\ pc = "sig_done" =>
             /\ Len(SignalsOf(signals, "RSI")) = 1
             /\ SignalsOf(signals, "RSI")[1].signal = "SELL"

\* generate_signals has returned on the indicators of 20 rising closes
\* computed with the default RSI length
C17_Witness ==
    /\ pc = "sig_done" /\ error = "none"
    /\ Len(price_data) >= 20 /\ params.rsi_length = 14
    /\ StrictlyIncreasing
    /\ SignalsOf(signals, "RSI") # <<>>

\* The columns pandas_ta answered with, in the order of the six fields; a
\* missing answer is a column without rows
LibraryColumns ==
    LET Col(ret, k) ==
            IF ret.kind = "Series" THEN ret.data
            ELSE IF ret.kind = "DataFrame" THEN ret.cols[k]
            ELSE <<>>
    IN  <<Col(ta.rsi, 1), Col(ta.trix, 1), Col(ta.trix, 2),
          Col(ta.macd, 1), Col(ta.macd, 2), Col(ta.macd, 3)>>

\* The six optional fields of an indicator point, in the same order
Fields(p) == <<p.rsi, p.trix, p.trix_signal, p.macd, p.macd_signal, p.macd_histogram>>

\* C14: no field of a point returned by calculate_all is NaN: each of the
\* six is absent or a number, and a value the library left undefined (a
\* NaN cell of warm-up or of 0/0, a missing row, a missing answer) is
\* absent, never 0.
C14_UndefinedIsAbsent ==
    CalculatedPoints =>
        \A i \in 1..Len(indicators) : \A k \in 1..6 :
            LET value == Fields(indicators[i])[k]
                col == LibraryColumns[k]
            IN  /\ value # NaN
                /\ value.tag \in {"None", "float"}
                /\ (i > Len(col) \/ col[i] \in {NaN, None}) => value = None
                /\ (i <= Len(col) /\ col[i] \notin {NaN, None}) => value = col[i]

\* calculate_all has returned on a flat series longer than the RSI length:
\* the ratio of its last row is 0/0, the row before the length is warm-up
C14_Witness ==
    /\ CalculatedPoints
    /\ Len(price_data) > params.rsi_length
    /\ \A i \in 1..Len(price_data) : price_data[i].close = price_data[1].close
    /\ ta.rsi.kind = "Series"
    /\ ta.rsi.data[Len(price_data)] = NaN
    /\ indicators[Len(indicators)].rsi = None
    /\ indicators[1].rsi = None

C19_AtMostMaxResults ==
    pc = "news_done" =>
        /\ Len(unique_articles) <= max_results
        /\ (Len(articles) = 15 /\ max_results = 10) => Len(unique_articles) = 10

\* C20 as stated: an analyzer without a client, called as
\* analyze(stock_name, articles, report_data), returns None, raises no
\* exception and makes no API call.
C20_NoneWithoutClient ==
    (pc = "ai_done" /\ ~client /\ Len(ai_call) = 3) =>
        /\ ai_result.tag = "None"
        /\ error = "none"
        /\ api_calls = 0

\* Exactly one signal of this family, of this direction and strength
OneSignalOf(family, direction, strength) ==
    /\ error = "none"
    /\ Len(SignalsOf(signals, family)) = 1
    /\ SignalsOf(signals, family)[1].signal = direction
    /\ SignalsOf(signals, family)[1].strength = strength

\* C21: with the current rsi present and in [30, 70]: a previous rsi below
\* 30 gives exactly one RSI signal, BUY of strength 2 (also at current = 30);
\* a previous rsi above 70 gives exactly one RSI signal, SELL of strength 2
\* (also at current = 70); a previous rsi that is absent or in [30, 70]
\* gives no RSI signal.
C21_RsiExit ==
    (SignalsDoneOnTwo /\ Cur.rsi # None
        /\ 30 * One <= Cur.rsi.v /\ Cur.rsi.v <= 70 * One) =>
        /\ (Prv.rsi # None /\ Prv.rsi.v < 30 * One) => OneSignalOf("RSI", "BUY", 2)
        /\ (Prv.rsi # None /\ Prv.rsi.v > 70 * One) => OneSignalOf("RSI", "SELL", 2)
        /\ (Prv.rsi = None \/ (30 * One <= Prv.rsi.v /\ Prv.rsi.v <= 70 * One)) =>
              (error = "none" /\ SignalsOf(signals, "RSI") = <<>>)

\* previous just below 30, current exactly 30: one RSI BUY of strength 2
C21_Witness ==
    /\ SignalsDoneOnTwo
    /\ Prv.rsi = Num(30 * One - 1)
    /\ Cur.rsi = Num(30 * One)
    /\ OneSignalOf("RSI", "BUY", 2)
    /\ SignalsOf(signals, "RSI")[1].reason = "oversold exit"

\* The four conditions of the RSI rules, on the last two points
OversoldEntry == Cur.rsi.v < 30 * One
OverboughtEntry == Cur.rsi.v > 70 * One
OversoldExit == Prv.rsi # None /\ Prv.rsi.v < 30 * One /\ 30 * One <= Cur.rsi.v
OverboughtExit == Prv.rsi # None /\ Prv.rsi.v > 70 * One /\ 70 * One >= Cur.rsi.v

\* How many of the four conditions hold
RsiConditionsTrue ==
    (IF OversoldEntry THEN 1 ELSE 0) + (IF OverboughtEntry THEN 1 ELSE 0)
    + (IF OversoldExit THEN 1 ELSE 0) + (IF OverboughtExit THEN 1 ELSE 0)

\* C22 as stated: for every pair (previous, current) at most one of the four
\* conditions (current < 30; current > 70; previous < 30 <= current;
\* previous > 70 >= current) is true, so the RSI signal is the same in
\* whatever order the conditions are tested, here with the exit rules first.
C22_MutuallyExclusive ==
    (SignalsDoneOnTwo /\ Cur.rsi # None) =>
        /\ RsiConditionsTrue <= 1
        /\ SignalsOf(signals, "RSI") =
             _generate_rsi_signal_exit_first(Cur.rsi.v, Prv.rsi)

\* C22 amended: the two entry conditions exclude each other, the two exit
\* conditions exclude each other, and an entry condition excludes the exit
\* condition of its own side; but an entry condition can hold together with
\* the exit condition of the other side (previous below 30 and current
\* above 70, or previous above 70 and current below 30), and then the
\* entry rule, tested first, gives the signal: SELL from the overbought
\* entry, BUY from the oversold entry.
C22_EntryBeforeExit ==
    (SignalsDoneOnTwo /\ Cur.rsi # None) =>
        /\ ~(OversoldEntry /\ OverboughtEntry)
        /\ ~(OversoldExit /\ OverboughtExit)
        /\ ~(OversoldEntry /\ OversoldExit)
        /\ ~(OverboughtEntry /\ OverboughtExit)
        /\ (OverboughtEntry /\ OversoldExit) =>
             /\ Len(SignalsOf(signals, "RSI")) = 1
             /\ SignalsOf(signals, "RSI")[1].signal = "SELL"
             /\ SignalsOf(signals, "RSI")[1].reason = "overbought entry"
        /\ (OversoldEntry /\ OverboughtExit) =>
             /\ Len(SignalsOf(signals, "RSI")) = 1
             /\ SignalsOf(signals, "RSI")[1].signal = "BUY"
             /\ SignalsOf(signals, "RSI")[1].reason = "oversold entry"

\* previous 6, current 76: the overbought entry and the oversold exit both
\* hold, and the signal is the SELL of the entry rule
C22_Witness ==
    /\ SignalsDoneOnTwo
    /\ Prv.rsi = Num(6 * One)
    /\ Cur.rsi = Num(76 * One)
    /\ RsiConditionsTrue = 2
    /\ OneSignalOf("RSI", "SELL", 2)
    /\ SignalsOf(signals, "RSI")[1].reason = "overbought entry"

\* All four values a TRIX (a MACD) rule reads are present in the last two points
TrixPresent ==
    /\ Cur.trix # None /\ Cur.trix_signal # None
    /\ Prv.trix # None /\ Prv.trix_signal # None
MacdPresent ==
    /\ Cur.macd # None /\ Cur.macd_signal # None
    /\ Prv.macd # None /\ Prv.macd_signal # None

\* C23: a TRIX signal is emitted only if the current trix, the current
\* trix_signal, the previous trix and the previous trix_signal are all
\* present; with any of them absent there is no TRIX signal, whatever the
\* present values show.  The same holds for MACD with macd and macd_signal.
C23_AllFourPresent ==
    SignalsDoneOnTwo =>
        /\ ~TrixPresent => SignalsOf(signals, "TRIX") = <<>>
        /\ ~MacdPresent => SignalsOf(signals, "MACD") = <<>>

\* trix goes from -0.1 up to 0.1 across the zero line, the previous
\* trix_signal is absent, and no TRIX signal was emitted
C23_Witness ==
    /\ SignalsDoneOnTwo
    /\ Prv.trix = Num(-Tenth) /\ Prv.trix_signal = None
    /\ Cur.trix = Num(Tenth) /\ Cur.trix_signal = Num(0)
    /\ error = "none"
    /\ SignalsOf(signals, "TRIX") = <<>>

\* The conditions of the TRIX rules, on the last two points
TrixGolden == Prv.trix.v <= Prv.trix_signal.v /\ Cur.trix.v > Cur.trix_signal.v
TrixDead == Prv.trix.v >= Prv.trix_signal.v /\ Cur.trix.v < Cur.trix_signal.v
TrixZeroUp == Prv.trix.v <= 0 /\ 0 < Cur.trix.v
TrixZeroDown == Prv.trix.v >= 0 /\ 0 > Cur.trix.v

\* C24: with all four TRIX values present, previous trix <= previous signal
\* and current trix > current signal give a TRIX BUY of strength
\* min(5, floor(|current trix - current signal| * 10) + 2); previous trix >=
\* previous signal and current trix < current signal give a TRIX SELL of
\* the same strength formula.  Equal previous values count as a crossing in
\* either direction, and the two conditions never hold together.
C24_TrixCross ==
    (SignalsDoneOnTwo /\ TrixPresent) =>
        /\ TrixGolden =>
             OneSignalOf("TRIX", "BUY",
                 Min(5, ((Abs(Cur.trix.v - Cur.trix_signal.v) * 10) \div One) + 2))
        /\ TrixDead =>
             OneSignalOf("TRIX", "SELL",
                 Min(5, ((Abs(Cur.trix.v - Cur.trix_signal.v) * 10) \div One) + 2))
        /\ ~(TrixGolden /\ TrixDead)

\* previous trix = previous signal = 0, current trix 0.2 over signal 0.1:
\* a golden cross, BUY of strength floor(0.1 * 10) + 2 = 3
C24_Witness ==
    /\ SignalsDoneOnTwo
    /\ Prv.trix = Num(0) /\ Prv.trix_signal = Num(0)
    /\ Cur.trix = Num(2 * Tenth) /\ Cur.trix_signal = Num(Tenth)
    /\ OneSignalOf("TRIX", "BUY", 3)
    /\ SignalsOf(signals, "TRIX")[1].reason = "golden cross"

\* The conditions of the MACD rules, on the last two points
MacdGolden == Prv.macd.v <= Prv.macd_signal.v /\ Cur.macd.v > Cur.macd_signal.v
MacdDead == Prv.macd.v >= Prv.macd_signal.v /\ Cur.macd.v < Cur.macd_signal.v
MacdZeroUp == Prv.macd.v <= 0 /\ 0 < Cur.macd.v
MacdZeroDown == Prv.macd.v >= 0 /\ 0 > Cur.macd.v

\* C25: for TRIX and for MACD, when a signal-line crossing and a zero-line
\* crossing hold at the same point, the one signal emitted is the
\* signal-line crossover, with its direction and its strength formula, also
\* when the zero-line crossing points the other way.
C25_SignalLineFirst ==
    SignalsDoneOnTwo =>
        /\ (TrixPresent /\ (TrixGolden \/ TrixDead) /\ (TrixZeroUp \/ TrixZeroDown)) =>
             /\ OneSignalOf("TRIX", IF TrixGolden THEN "BUY" ELSE "SELL",
                    Min(5, ((Abs(Cur.trix.v - Cur.trix_signal.v) * 10) \div One) + 2))
             /\ SignalsOf(signals, "TRIX")[1].reason =
                    (IF TrixGolden THEN "golden cross" ELSE "dead cross")
        /\ (MacdPresent /\ (MacdGolden \/ MacdDead) /\ (MacdZeroUp \/ MacdZeroDown)) =>
             /\ OneSignalOf("MACD", IF MacdGolden THEN "BUY" ELSE "SELL",
                    Min(5, (Abs(Cur.macd.v - Cur.macd_signal.v) \div (100 * One)) + 2))
             /\ SignalsOf(signals, "MACD")[1].reason =
                    (IF MacdGolden THEN "golden cross" ELSE "dead cross")

\* trix falls from 0 to -0.5 through the zero line while it crosses its
\* signal upwards (signal 0.1, then -0.6): the signal is the golden-cross BUY
C25_Witness ==
    /\ SignalsDoneOnTwo
    /\ Prv.trix = Num(0) /\ Prv.trix_signal = Num(Tenth)
    /\ Cur.trix = Num(-5 * Tenth) /\ Cur.trix_signal = Num(-6 * Tenth)
    /\ TrixGolden /\ TrixZeroDown
    /\ OneSignalOf("TRIX", "BUY", 3)
    /\ SignalsOf(signals, "TRIX")[1].reason = "golden cross"

\* C26: with all four TRIX values present and neither golden nor dead cross
\* holding (current trix = current signal included): previous trix <= 0 <
\* current trix gives a TRIX BUY of strength exactly 2, previous trix >= 0 >
\* current trix gives a TRIX SELL of strength exactly 2, and otherwise no
\* TRIX signal is emitted.
C26_TrixZeroLine ==
    (SignalsDoneOnTwo /\ TrixPresent /\ ~TrixGolden /\ ~TrixDead) =>
        /\ TrixZeroUp => OneSignalOf("TRIX", "BUY", 2)
        /\ TrixZeroDown => OneSignalOf("TRIX", "SELL", 2)
        /\ (~TrixZeroUp /\ ~TrixZeroDown) =>
             (error = "none" /\ SignalsOf(signals, "TRIX") = <<>>)

\* trix falls from 0.2 to -0.5 and stays above its signal (0.1, then -0.6):
\* no signal-line crossing, a zero-line SELL of strength 2
C26_Witness ==
    /\ SignalsDoneOnTwo
    /\ Prv.trix = Num(2 * Tenth) /\ Prv.trix_signal = Num(Tenth)
    /\ Cur.trix = Num(-5 * Tenth) /\ Cur.trix_signal = Num(-6 * Tenth)
    /\ OneSignalOf("TRIX", "SELL", 2)
    /\ SignalsOf(signals, "TRIX")[1].reason = "zero line down"

\* Two rule results agree on whether a signal is emitted, on its direction
\* and on the rule that fired
SameDecision(a, b) ==
    /\ Len(a) = Len(b)
    /\ a # <<>> => (a[1].signal = b[1].signal /\ a[1].reason = b[1].reason)

\* A signal-line crossover carries this strength, a zero-line signal carries 2
CrossStrengthIs(sig, strength) ==
    sig # <<>> =>
        sig[1].strength =
            (IF sig[1].reason \in {"golden cross", "dead cross"} THEN strength ELSE 2)

\* C27: the MACD rule and the TRIX rule are one decision procedure: on the
\* same four values (current oscillator, current signal, previous
\* oscillator, previous signal) _generate_macd_signal emits a signal exactly
\* when _generate_trix_signal does, of the same direction and from the same
\* rule; only the strength of a signal-line crossover differs, which is
\* min(5, floor(|current oscillator - current signal| / 100) + 2) for MACD.
\* Checked on the MACD values and on the TRIX values of the last two points.
C27_SameProcedure ==
    SignalsDoneOnTwo =>
        /\ MacdPresent =>
             /\ SameDecision(SignalsOf(signals, "MACD"),
                             TrixRules(Cur.macd.v, Cur.macd_signal.v,
                                       Prv.macd.v, Prv.macd_signal.v))
             /\ CrossStrengthIs(SignalsOf(signals, "MACD"),
                    Min(5, (Abs(Cur.macd.v - Cur.macd_signal.v) \div (100 * One)) + 2))
        /\ TrixPresent =>
             /\ SameDecision(SignalsOf(signals, "TRIX"),
                             MacdRules(Cur.trix.v, Cur.trix_signal.v,
                                       Prv.trix.v, Prv.trix_signal.v))
             /\ CrossStrengthIs(
                    MacdRules(Cur.trix.v, Cur.trix_signal.v,
                              Prv.trix.v, Prv.trix_signal.v),
                    Min(5, (Abs(Cur.trix.v - Cur.trix_signal.v) \div (100 * One)) + 2))

\* macd 100 over signal 50 after -100 under -50: both rules decide a
\* golden-cross BUY, of strength 2 for MACD and of strength 5 for TRIX
C27_Witness ==
    /\ MacdCase(-100, -50, 100, 50)
    /\ OneSignalOf("MACD", "BUY", 2)
    /\ SignalsOf(signals, "MACD")[1].reason = "golden cross"
    /\ TrixRules(100 * One, 50 * One, -100 * One, -50 * One)[1].reason = "golden cross"
    /\ TrixRules(100 * One, 50 * One, -100 * One, -50 * One)[1].strength = 5

\* C28: with RSI length L (14 by default), rsi is absent at each of the
\* first L positions of calculate_all's output, for every price list; so
\* every rsi is absent when the list has at most L prices.
C28_RsiWarmUp ==
    CalculatedPoints =>
        \A i \in 1..Len(indicators) :
            i <= params.rsi_length => indicators[i].rsi = None

\* 20 prices and the default length 14: rsi is absent at position 14 and
\* present at position 15
C28_Witness ==
    /\ CalculatedPoints
    /\ params.rsi_length = 14
    /\ Len(indicators) = 20
    /\ indicators[14].rsi = None
    /\ indicators[15].rsi # None

\* C29 as stated: in StockAnalyzer.analyze, with a stock that is found,
\* non-empty price data and collectors that succeed, the AI step never
\* aborts the analysis: when the AI analyzer is available, analyze raises
\* nothing and returns a StockReport whose ai_analysis is the AIAnalyzer
\* result or None.
C29_AiStepNeverAborts ==
    (pc = "analyze_done" /\ collected.stock_found /\ price_data # <<>>
        /\ use_ai /\ client) =>
        /\ error = "none"
        /\ report.tag = "StockReport"
        /\ report.ai_analysis.tag \in {"AIAnalysis", "None"}

\* The PDFs among the results of generate_report_for_period
Generated(results) ==
    LET IsPath(p) == p # "None"
    IN  SelectSeq(results, IsPath)

\* The run of main, at any point from the loop on
MainOrder ==
    pc \in {"main_loop", "main_merge", "main_notify", "main_cleanup", "main_done"} =>
        /\ error = "none"
        /\ Len(pdf_results) = stock_index
        /\ stock_index <= Len(stock_list)
        /\ pc # "main_loop" => stock_index = Len(stock_list)
        /\ all_pdf_paths = Generated(pdf_results)
        /\ merged_pdf # "None" =>
             (stock_index = Len(stock_list) /\ Len(all_pdf_paths) > 1)
        /\ pc \in {"main_notify", "main_cleanup", "main_done"} =>
             (merged_pdf # "None" <=> Len(all_pdf_paths) > 1)
        /\ cleaned <=> pc = "main_done"

\* C30: in the CLI run a failure while analysing or rendering one stock
\* never stops the run: generate_report_for_period turns it into a None
\* result, the loop goes on to every remaining stock, only the PDFs that
\* were generated are collected, merging happens only after all stocks were
\* processed and only when more than one PDF was produced, and
\* cleanup_old_reports runs last: once in the loop, the run reaches the end
\* of the loop, and from there cleanup_old_reports unless merge_pdfs raises.
C30_RunGoesOn ==
    /\ []MainOrder
    /\ (pc = "main_loop") ~> (pc = "main_merge")
    /\ (pc = "main_merge") ~> (cleaned \/ pc = "main_raised")

\* A run over three stocks whose first stock failed: the other two PDFs
\* were collected and merged, and cleanup_old_reports has run
C30_Witness ==
    /\ pc = "main_done" /\ cleaned
    /\ Len(stock_list) = 3
    /\ pdf_results[1] = "None"
    /\ Len(all_pdf_paths) = 2
    /\ merged_pdf # "None"

====
